---- MODULE Spec2Model ----
(***************************************************************************)
(* A model of the extraction pipeline of blood_test_kits_scraper.py:       *)
(* try_load_page, visit_product_page, get_product_biomarkers,              *)
(* save_product_realtime and the per-product loop of main.                 *)
(*                                                                         *)
(* Python values are represented as follows.                               *)
(*   None / an absent dict key : <<>>          (Null)                      *)
(*   a present value v         : <<v>>         (Some(v))                   *)
(*   a str element of a list   : [t |-> "str", v |-> s]                    *)
(*   a dict {category,markers} : [t |-> "dict", category, markers]         *)
(*   amounts of money          : integer cents                             *)
(***************************************************************************)
EXTENDS Integers, Sequences, FiniteSets, TLC

VARIABLES
    file,       \* the persisted catalog data/products.json
    now,        \* logical clock read by datetime.now(): the number of save calls so far
    lastSave,   \* the save_product_realtime call of the current iteration of main (the
                \* last call in SpecStore): arguments, return value, locals
    lastLoad,   \* the last try_load_page call: arguments, return value, what it invoked
    lastVisit,  \* the last visit_product_page call for the current listing: argument,
                \* environment, result, calls
    pc,         \* position of the single thread of control of main
    urlIdx,     \* main: index into urls of the listing being processed
    products,   \* main: the stubs scrape_page returned for the current listing
    prodIdx,    \* main: number of stubs of the current listing already visited
    visited,    \* main: the links visit_product_page was called with for this listing
    lastCount,  \* a biomarker set with what count_biomarkers and the advisor's
                \* flattening made of it
    lastPrice,  \* a price element with what get_product_price made of it
    lastExpand, \* a DOM with what the expansion made of it
    lastItem,   \* a list item with what the ordered-list strategy made of it
    scrape,     \* a scrape_page call: the listing pages, its position and its locals
    sched,      \* the coroutines of the product loop on the event loop, and the file
    cache       \* the Redis store, the client, and the last cached_or_compute call

vars == <<file, now, lastSave, lastLoad, lastVisit, pc, urlIdx, products, prodIdx, visited,
          lastCount, lastPrice, lastExpand, lastItem, scrape, sched, cache>>

\* the variables of the calls of the pure functions and of scrape_page
pure == <<lastCount, lastPrice, lastExpand, lastItem, scrape, sched, cache>>

\* the variables of the run, the store and the visit
run == <<file, now, lastSave, lastLoad, lastVisit, pc, urlIdx, products, prodIdx, visited>>

(***************************************************************************)
(* Python values                                                           *)
(***************************************************************************)
Null == <<>>
Some(v) == <<v>>
Str(s) == [t |-> "str", v |-> s]
Group(c, ms) == [t |-> "dict", category |-> c, markers |-> ms]

RECURSIVE SumLens(_)
SumLens(groups) ==
    IF groups = <<>> THEN 0
    ELSE (IF Head(groups).t = "dict" THEN Len(Head(groups).markers) ELSE 0)
         + SumLens(Tail(groups))

\* mutant: the length of the list whatever its elements are
count_biomarkers_LenOnly(bs) == [total |-> Len(bs), categories |-> Null]

\* count_biomarkers: (total_count, category_count); category_count may be None
count_biomarkers(bs) ==
    IF bs = <<>> THEN [total |-> 0, categories |-> Null]
    ELSE IF bs[1].t = "dict"
         THEN [total |-> SumLens(bs), categories |-> Some(Len(bs))]
         ELSE [total |-> Len(bs), categories |-> Null]

(***************************************************************************)
(* The inputs the model draws from                                         *)
(***************************************************************************)
\* main.urls: the listing URLs processed in order
urls == <<"u1", "u2">>
Urls == {urls[i] : i \in 1..Len(urls)}

\* the (name, link) stubs get_products can return
Stubs == { [name |-> "A", link |-> "l1"], [name |-> "B", link |-> "l2"] }
Links == { s.link : s \in Stubs }

\* the bound on the number of save_product_realtime calls in SpecStore
MaxSaves == 4

FlatPayload == << Str("Glucose"), Str("Ferritine") >>
CatPayload == << Group("Lever", << "ALAT", "ASAT" >>), Group("Nieren", << "Creatinine" >>) >>
Payloads == { <<>>, FlatPayload, CatPayload }

\* a record as visit_product_page returns it for a stub of listing u, non-skipped
RecordOf(stub, u, bs) ==
    [ name |-> stub.name, link |-> stub.link, source_url |-> u,
      price |-> Some(14900), biomarkers |-> bs,
      biomarker_count |-> Some(count_biomarkers(bs).total),
      category_count |-> count_biomarkers(bs).categories,
      extraction_attempts |-> Some(1),
      error |-> IF bs = <<>> THEN Some("No biomarkers found after multiple attempts") ELSE Null,
      skipped |-> Null, reason |-> Null ]

(***************************************************************************)
(* save_product_realtime                                                   *)
(***************************************************************************)
Filename == "data/products.json"

\* the dict built when the file does not exist
EmptyCatalog(t) ==
    [ scrape_timestamp |-> t, sources |-> <<>>, total_products |-> 0, products |-> <<>> ]

NoFile == [ state |-> "absent", data |-> EmptyCatalog(0) ]
CorruptFile == [ state |-> "corrupt", data |-> EmptyCatalog(0) ]
OkFile(data) == [ state |-> "ok", data |-> data ]

\* mutant: the entry of base_url is made anew at every call
EnsureSource_Reset(data, base_url, t) ==
    [ data EXCEPT !.sources =
        [ u \in DOMAIN data.sources \cup {base_url} |->
            IF u = base_url THEN [ last_updated |-> t, product_count |-> 0 ]
            ELSE data.sources[u] ] ]

\* if base_url not in data['sources']: data['sources'][base_url] = {...}
EnsureSource(data, base_url, t) ==
    IF base_url \in DOMAIN data.sources THEN data
    ELSE [ data EXCEPT !.sources =
             [ u \in DOMAIN data.sources \cup {base_url} |->
                 IF u = base_url THEN [ last_updated |-> t, product_count |-> 0 ]
                 ELSE data.sources[u] ] ]

\* mutant: records are keyed by (link, source_url) instead of link
Matches_ByLinkAndSource(data, p) ==
    { i \in 1..Len(data.products) : /\ data.products[i].link = p.link
                                    /\ data.products[i].source_url = p.source_url }

\* the indices of the existing records with the link of p
Matches(data, p) == { i \in 1..Len(data.products) : data.products[i].link = p.link }

\* the first index the enumerate loop stops at (only used when Matches is non-empty)
FirstMatch(data, p) == CHOOSE i \in Matches(data, p) : \A j \in Matches(data, p) : i <= j

\* mutant: the record is appended without looking for its link
MergeProduct_AppendOnly(data, p, base_url) ==
    [ data EXCEPT !.products = Append(@, p),
                  !.sources[base_url].product_count = @ + 1 ]

\* mutant: the record found is removed and the new one appended at the end
MergeProduct_MoveToEnd(data, p, base_url) ==
    IF Matches(data, p) # {}
    THEN [ data EXCEPT !.products =
             Append(SubSeq(@, 1, FirstMatch(data, p) - 1)
                      \o SubSeq(@, FirstMatch(data, p) + 1, Len(@)), p) ]
    ELSE [ data EXCEPT !.products = Append(@, p),
                       !.sources[base_url].product_count = @ + 1 ]

\* the add-or-update loop, then the append and the product_count increment
MergeProduct(data, p, base_url) ==
    IF Matches(data, p) # {}
    THEN [ data EXCEPT !.products[FirstMatch(data, p)] = p ]
    ELSE [ data EXCEPT !.products = Append(@, p),
                       !.sources[base_url].product_count = @ + 1 ]

\* mutant: total_products is counted up instead of recomputed
UpdateTotals_Increment(data, base_url, t) ==
    [ data EXCEPT !.total_products = @ + 1,
                  !.sources[base_url].last_updated = t ]

\* data['total_products'] = len(...); data['sources'][base_url]['last_updated'] = now
UpdateTotals(data, base_url, t) ==
    [ data EXCEPT !.total_products = Len(data.products),
                  !.sources[base_url].last_updated = t ]

\* the dict that json.dump writes
MergedCatalog(f, p, base_url, t) ==
    UpdateTotals(
        MergeProduct(
            EnsureSource(IF f.state = "ok" THEN f.data ELSE EmptyCatalog(t), base_url, t),
            p, base_url),
        base_url, t)

\* the outcomes of the file system: "ok"; "fail_early" (mkdir, open or json.load
\* raises: nothing written); "fail_write" (json.dump raises after open(...,'w')
\* truncated the file)
IoOutcomes(f) == IF f.state = "corrupt" THEN {"fail_early"} ELSE {"ok", "fail_early", "fail_write"}

\* mutant: the exception is not handled
SaveExcept_Reraise(f) == [ file |-> f, ret |-> Null, raised |-> TRUE ]

\* except Exception as e: the error is logged and None returned; f is the file as
\* the failed statement left it
SaveExcept(f) == [ file |-> f, ret |-> Null, raised |-> FALSE ]

\* mutant: the file is opened for writing before the existing catalog is loaded
save_product_realtime_WriteFirst(f, p, base_url, t, io) ==
    CASE io = "ok" -> [ file |-> OkFile(MergedCatalog(f, p, base_url, t)), ret |-> Some(Filename),
                        raised |-> FALSE ]
      [] OTHER -> SaveExcept(IF f.state = "absent" THEN f ELSE CorruptFile)

\* the file after the call, the value returned, and whether an exception left the call
save_product_realtime(f, p, base_url, t, io) ==
    CASE io = "ok" -> [ file |-> OkFile(MergedCatalog(f, p, base_url, t)), ret |-> Some(Filename),
                        raised |-> FALSE ]
      [] io = "fail_early" -> SaveExcept(f)
      [] io = "fail_write" -> SaveExcept(CorruptFile)

\* what a call leaves behind for the caller and the log: its arguments, its return
\* value, the product_exists flag and the record the loop overwrote
SaveRecord(f, p, base_url, t, io) ==
    LET data == IF f.state = "ok" THEN f.data ELSE EmptyCatalog(t)
        found == io = "ok" /\ Matches(data, p) # {}
    IN [ p |-> Some(p), base_url |-> Some(base_url), io |-> Some(io),
         ret |-> save_product_realtime(f, p, base_url, t, io).ret,
         raised |-> save_product_realtime(f, p, base_url, t, io).raised,
         product_exists |-> found,
         replaced |-> IF found THEN Some(data.products[FirstMatch(data, p)]) ELSE Null ]

NoSave == [ p |-> Null, base_url |-> Null, io |-> Null, ret |-> Null, raised |-> FALSE,
            product_exists |-> FALSE, replaced |-> Null ]

(***************************************************************************)
(* SpecStore: any sequence of save_product_realtime calls, starting from   *)
(* an absent catalog file                                                  *)
(***************************************************************************)
NoLoad == [ max_retries |-> 0, script |-> <<>>, called |-> FALSE, ret |-> Null, raised |-> FALSE,
            calls |-> <<>> ]
NoVisit == [ stub |-> Null, env |-> Null, called |-> FALSE, product |-> Null, raised |-> FALSE,
             calls |-> <<>>, page_loaded |-> Null, price |-> Null, tries |-> <<>> ]

NoCount == [ biomarkers |-> <<>>, counted |-> FALSE, total |-> Null, categories |-> Null,
             flattened |-> FALSE, flat |-> <<>>, recount |-> Null, again |-> <<>> ]
NoPrice == [ element |-> Null, called |-> FALSE, ret |-> Null ]
NoExpand == [ dom |-> Null, api |-> "ok", called |-> FALSE, ret |-> Null, raised |-> FALSE,
              after |-> Null, calls |-> <<>>, twice |-> Null ]
NoItem == [ item |-> Null, called |-> FALSE, result |-> <<>> ]
NoScrape == [ pages |-> <<>>, pc |-> "idle", current |-> 0, all_products |-> <<>>,
              page_num |-> 0, seen |-> <<>> ]

NoSched == [ items |-> <<>>, pc |-> <<>>, next |-> <<>>, held |-> <<>>, skips |-> <<>>,
             file |-> {}, saved |-> {} ]
NoCache == [ client |-> FALSE, store |-> <<>>, calls |-> 0, last |-> Null ]

PureIdle ==
    /\ lastCount = NoCount /\ lastPrice = NoPrice /\ lastExpand = NoExpand
    /\ lastItem = NoItem /\ scrape = NoScrape /\ sched = NoSched /\ cache = NoCache

MainIdle ==
    /\ pc = "idle" /\ urlIdx = 0 /\ products = <<>> /\ prodIdx = 0 /\ visited = <<>>

InitStore ==
    /\ file = NoFile
    /\ now = 0
    /\ PureIdle
    /\ lastSave = NoSave
    /\ lastLoad = NoLoad
    /\ lastVisit = NoVisit
    /\ MainIdle

SaveCall ==
    /\ now < MaxSaves
    /\ \E stub \in Stubs, u \in Urls, bs \in Payloads :
         \E io \in IoOutcomes(file) :
           LET p == RecordOf(stub, u, bs)
               r == save_product_realtime(file, p, u, now + 1, io)
           IN /\ file' = r.file
              /\ lastSave' = SaveRecord(file, p, u, now + 1, io)
    /\ now' = now + 1
    /\ UNCHANGED <<pure, lastLoad, lastVisit, pc, urlIdx, products, prodIdx, visited>>

NextStore == SaveCall

SpecStore == InitStore /\ [][NextStore]_vars

(***************************************************************************)
(* try_load_page                                                           *)
(***************************************************************************)
strategies ==
    << [ wait_until |-> "domcontentloaded", timeout |-> 30000 ],
       [ wait_until |-> "load", timeout |-> 60000 ],
       [ wait_until |-> "networkidle", timeout |-> 90000 ] >>

\* the default of the max_retries parameter
DefaultMaxRetries == 3

\* the bound on the max_retries argument SpecLoad draws
MaxRetriesArg == 3

\* what the function invokes: page.goto and asyncio.sleep
GotoCall(attempt, s) ==
    [ op |-> "goto", attempt |-> attempt, wait_until |-> strategies[s].wait_until,
      timeout |-> strategies[s].timeout ]
SleepCall(seconds) == [ op |-> "sleep", seconds |-> seconds ]
\* any other collaborator, with the function that invoked it
Call(name, by) == [ op |-> name, by |-> by ]

Ops(calls, name) == { i \in 1..Len(calls) : calls[i].op = name }
NumGotos(calls) == Cardinality(Ops(calls, "goto"))

\* a script gives the outcome of the n-th page.goto call: TRUE when it returns,
\* FALSE when it raises (a timeout or a navigation error)
Scripts(n) == [ 1..n -> BOOLEAN ]

\* mutant: a successful goto does not return, the remaining strategies are still tried
RECURSIVE TryStrategies_NoReturn(_, _, _, _)
TryStrategies_NoReturn(attempt, s, script, calls) ==
    IF s > Len(strategies) THEN [ done |-> FALSE, calls |-> calls ]
    ELSE LET c == Append(calls, GotoCall(attempt, s))
             rest == TryStrategies_NoReturn(attempt, s + 1, script, c)
         IN IF script[NumGotos(c)] THEN [ done |-> TRUE, calls |-> rest.calls ] ELSE rest

\* for strategy in strategies: try goto, return True; except Exception: continue
RECURSIVE TryStrategies(_, _, _, _)
TryStrategies(attempt, s, script, calls) ==
    IF s > Len(strategies) THEN [ done |-> FALSE, calls |-> calls ]
    ELSE LET c == Append(calls, GotoCall(attempt, s))
         IN IF script[NumGotos(c)]
            THEN [ done |-> TRUE, calls |-> c ]
            ELSE TryStrategies(attempt, s + 1, script, c)

\* mutant: the same pause after every round
wait_time_Constant(attempt) == 5

\* wait_time = (attempt + 1) * 5
wait_time(attempt) == (attempt + 1) * 5

\* mutant: the outer loop runs one round short
RECURSIVE TryRounds_OneShort(_, _, _, _)
TryRounds_OneShort(attempt, max_retries, script, calls) ==
    IF attempt >= max_retries - 1 THEN [ ret |-> Some(FALSE), raised |-> FALSE, calls |-> calls ]
    ELSE LET r == TryStrategies(attempt, 1, script, calls)
         IN IF r.done THEN [ ret |-> Some(TRUE), raised |-> FALSE, calls |-> r.calls ]
            ELSE TryRounds_OneShort(attempt + 1, max_retries, script,
                     Append(r.calls, SleepCall(wait_time(attempt))))

\* for attempt in range(max_retries): the strategies, then the backoff sleep
RECURSIVE TryRounds(_, _, _, _)
TryRounds(attempt, max_retries, script, calls) ==
    IF attempt >= max_retries THEN [ ret |-> Some(FALSE), raised |-> FALSE, calls |-> calls ]
    ELSE LET r == TryStrategies(attempt, 1, script, calls)
         IN IF r.done THEN [ ret |-> Some(TRUE), raised |-> FALSE, calls |-> r.calls ]
            ELSE TryRounds(attempt + 1, max_retries, script,
                     IF attempt < max_retries - 1
                     THEN Append(r.calls, SleepCall(wait_time(attempt)))
                     ELSE r.calls)

\* [ret, raised, calls]: the value returned, whether an exception left the function,
\* and the calls it made in order
try_load_page(max_retries, script) == TryRounds(0, max_retries, script, <<>>)

(***************************************************************************)
(* get_product_price, convert_price_to_number                              *)
(***************************************************************************)
\* a price text as the page shows it (stripped), with the amount Price.fromstring
\* finds in it, in cents (Null: no amount). price_parser is a library: for the
\* renderings it may or may not read as an amount both outcomes are drawn.
PriceText(text, amount) == [ text |-> text, amount |-> amount, raises |-> FALSE ]
\* a text at which Price.fromstring raises
PriceTextRaising(text) == [ text |-> text, amount |-> Null, raises |-> TRUE ]
PriceTexts ==
    { PriceText("€ 149,00", Some(14900)),
      PriceText("€ 0,00", Some(0)),
      PriceText("€0,-", Some(0)),
      PriceText("€0,-", Null),
      PriceText("0,-", Null),
      PriceText("Gratis", Null) }

\* what the price element gives: Null when wait_for_selector raises or finds nothing
PriceEnvs == { Null } \cup { Some(pt) : pt \in PriceTexts }

\* float(price.amount), None when there is no amount or Price.fromstring raised
convert_price_to_number(pt) == IF pt.raises THEN Null ELSE pt.amount

\* mutant: no text is a zero price by itself
ZeroPriceTexts_None == {}

ZeroPriceTexts == { "0", "0,-", "€0", "€0,-" }

get_product_price(priceEnv) ==
    IF priceEnv = Null THEN Null
    ELSE LET price_text == priceEnv[1].text
             price_number == convert_price_to_number(priceEnv[1])
         IN IF price_number = Some(0) \/ price_text \in ZeroPriceTexts
            THEN Some(0)
            ELSE price_number

(***************************************************************************)
(* The document: the description region as the extraction strategies see it *)
(***************************************************************************)
\* a list item, by its cleaned text and by what the classifiers test of it:
\*   instrOl : contains a phrase of the ordered-list strategy's excludeTexts
\*   instrUl : contains a phrase of the unordered-list strategy's excludeTexts
\*   vocab   : matches the known biomarker names
\*   abbr    : contains a parenthesized uppercase abbreviation
\*   first   : its first character: "upper", "lower", "other", or "none" (empty text)
\*   title   : an uppercase letter followed by a lowercase one at its start
Item(text, instrOl, instrUl, vocab, abbr, first, title) ==
    [ text |-> text, instrOl |-> instrOl, instrUl |-> instrUl, vocab |-> vocab,
      abbr |-> abbr, first |-> first, title |-> title ]

ItemGlucose == Item("Glucose", FALSE, FALSE, TRUE, FALSE, "upper", TRUE)
ItemFT4 == Item("vrij T4 (FT4)", FALSE, FALSE, FALSE, TRUE, "lower", FALSE)
ItemBestel == Item("Bestel de test online", TRUE, TRUE, FALSE, FALSE, "upper", TRUE)
ItemLaatJe == Item("Laat je bloed afnemen", FALSE, TRUE, FALSE, FALSE, "upper", TRUE)
ItemLower == Item("binnen twee dagen de uitslag", FALSE, FALSE, FALSE, FALSE, "lower", FALSE)
ItemEmpty == Item("", FALSE, FALSE, FALSE, FALSE, "none", FALSE)

\* a category label with the marker list that follows it (Null: no list)
Category(name, list) == [ category |-> name, list |-> list ]

\* showMore: "absent" (no a.show-more), "present", "no_container" (a.show-more
\* without the toggle container); ol: the ordered lists of the description region,
\* each a sequence of items; cat: the li > strong labels; ul: the items of the
\* first unordered list (Null: none); fails: the strategies whose page.evaluate
\* raises ("ol", "content", "ul")
Doc(showMore, ol, cat, ul) ==
    [ showMore |-> showMore, ol |-> ol, cat |-> cat, ul |-> ul, fails |-> {} ]
Failing(d, strategies_) == [ d EXCEPT !.fails = strategies_ ]

CatLever == Category("Lever", Some(<< "ALAT", "", "ASAT" >>))
CatNieren == Category("Nieren", Some(<< "Creatinine" >>))
CatLabelOnly == Category("Let op", Null)

DocOlAndCat ==
    Doc("present", << << ItemGlucose, ItemBestel, ItemFT4 >> >>, << CatLever, CatNieren >>,
        Some(<< ItemGlucose >>))
DocInstructionOlAndCat ==
    Doc("absent", << << ItemBestel, ItemLower, ItemEmpty >> >>, << CatLever, CatLabelOnly >>,
        Some(<< ItemGlucose >>))
DocCat == Doc("no_container", <<>>, << CatLever, CatNieren >>, Some(<< ItemGlucose >>))
DocUl == Doc("present", <<>>, << CatLabelOnly >>, Some(<< ItemGlucose, ItemLaatJe, ItemLower >>))
DocInstructionUl == Doc("absent", <<>>, <<>>, Some(<< ItemBestel, ItemLaatJe >>))
DocNone == Doc("absent", <<>>, <<>>, Null)

\* the same structures on a page whose document API fails for some strategies
DocOlFails == Failing(DocOlAndCat, { "ol" })
DocAllFail == Failing(DocOlAndCat, { "ol", "content", "ul" })

Docs ==
    { DocOlAndCat, DocInstructionOlAndCat, DocCat, DocUl, DocInstructionUl, DocNone,
      DocOlFails, DocAllFail }

\* the same page before its description content is in the DOM
Blank(d) == Failing(Doc(d.showMore, <<>>, <<>>, Null), d.fails)

(***************************************************************************)
(* expand_read_more                                                        *)
(***************************************************************************)
\* what the expansion reads and writes of the DOM: the a.show-more trigger with its
\* class active and its label, the toggle container with its class expanded, and the
\* .toggle-content region inside the container with its display style. The label
\* is a sequence of phrases.
Dom(button, active, label, container, expanded, content, display) ==
    [ button |-> button, active |-> active, label |-> label, container |-> container,
      expanded |-> expanded, content |-> content, display |-> display ]

\* text.replace('Lees meer', 'Lees minder'): the first occurrence only
RECURSIVE ReplaceFirst(_)
ReplaceFirst(label) ==
    IF label = <<>> THEN <<>>
    ELSE IF Head(label) = "Lees meer" THEN << "Lees minder" >> \o Tail(label)
    ELSE << Head(label) >> \o ReplaceFirst(Tail(label))

\* the function page.evaluate runs: [success, dom]
ExpandScript(dom) ==
    IF ~dom.container THEN [ success |-> FALSE, dom |-> dom ]
    ELSE [ success |-> TRUE,
           dom |-> [ dom EXCEPT !.expanded = TRUE,
                                !.display = IF dom.content THEN "block" ELSE @,
                                !.active = IF dom.button THEN TRUE ELSE @,
                                !.label = IF dom.button THEN ReplaceFirst(@) ELSE @ ] ]

\* mutant: the exception is not handled
ExpandExcept_Reraise(dom) == [ ret |-> Null, raised |-> TRUE, dom |-> dom ]

\* except Exception as e: logger.error(...); return False
ExpandExcept(dom) == [ ret |-> Some(FALSE), raised |-> FALSE, dom |-> dom ]

\* api: "ok", "query_raises" (page.query_selector raises), "evaluate_raises"
\* (page.evaluate raises, the function not having run)
ExpandApis == { "ok", "query_raises", "evaluate_raises" }

\* [ret, raised, dom]: the value returned, whether an exception left the function,
\* and the DOM it leaves
expand_read_more(dom, api) ==
    IF api = "query_raises" THEN ExpandExcept(dom)
    ELSE IF ~dom.button THEN [ ret |-> Some(FALSE), raised |-> FALSE, dom |-> dom ]
    ELSE IF api = "evaluate_raises" THEN ExpandExcept(dom)
    ELSE [ ret |-> Some(ExpandScript(dom).success), raised |-> FALSE,
           dom |-> ExpandScript(dom).dom ]

\* the same function called without a trigger test
expand_content_via_dom(dom, api) ==
    IF api # "ok" THEN [ ret |-> Some(FALSE), raised |-> FALSE, dom |-> dom ]
    ELSE [ ret |-> Some(ExpandScript(dom).success), raised |-> FALSE,
           dom |-> ExpandScript(dom).dom ]

\* the DOM of a document as loaded, by its showMore
DomOf(d) ==
    CASE d.showMore = "present" ->
           Dom(TRUE, FALSE, << "Lees meer" >>, TRUE, FALSE, TRUE, "none")
      [] d.showMore = "no_container" ->
           Dom(TRUE, FALSE, << "Lees meer" >>, FALSE, FALSE, FALSE, "none")
      [] OTHER -> Dom(FALSE, FALSE, <<>>, TRUE, FALSE, TRUE, "block")

(***************************************************************************)
(* The extraction strategies and get_product_biomarkers                    *)
(***************************************************************************)
Texts(items) == [ i \in 1..Len(items) |-> Str(items[i].text) ]

RECURSIVE Concat(_)
Concat(lists) == IF lists = <<>> THEN <<>> ELSE Head(lists) \o Concat(Tail(lists))

\* mutant: the acceptance rules are tried before the rejections
IsBiomarkerItem_AcceptFirst(it) ==
    IF it.vocab \/ it.abbr \/ it.title THEN TRUE
    ELSE IF it.text = "" THEN FALSE
    ELSE IF it.instrOl THEN FALSE
    ELSE it.first # "lower"

\* the filter of the ordered-list strategy; the letters are those of its patterns,
\* A-Z and a-z
IsBiomarkerItem(it) ==
    IF it.text = "" THEN FALSE
    ELSE IF it.instrOl THEN FALSE
    ELSE IF it.vocab THEN TRUE
    ELSE IF it.abbr THEN TRUE
    ELSE IF it.title THEN TRUE
    ELSE it.first # "lower"

\* the items of all ordered lists that pass the filter; [] when page.evaluate raises
extract_biomarkers_from_ordered_list(d) ==
    IF "ol" \in d.fails THEN <<>>
    ELSE Concat([ k \in 1..Len(d.ol) |-> Texts(SelectSeq(d.ol[k], IsBiomarkerItem)) ])

NonEmptyText(t) == t # ""

\* the groups of one label: none when it has no marker list or the list is empty
GroupOf(c) ==
    IF c.list = Null THEN <<>>
    ELSE IF SelectSeq(c.list[1], NonEmptyText) = <<>> THEN <<>>
    ELSE << Group(c.category, SelectSeq(c.list[1], NonEmptyText)) >>

extract_biomarkers_from_content(d) ==
    IF "content" \in d.fails THEN <<>>
    ELSE Concat([ k \in 1..Len(d.cat) |-> GroupOf(d.cat[k]) ])

NotUlInstruction(it) == ~it.instrUl

\* the last resort of get_product_biomarkers: the first unordered list
SimpleMarkers(d) ==
    IF d.ul = Null \/ "ul" \in d.fails THEN <<>>
    ELSE Texts(SelectSeq(d.ul[1], NotUlInstruction))

GPB == "get_product_biomarkers"

\* mutant: the results of the ordered-list and the categorized strategy are joined
get_product_biomarkers_Joined(d) ==
    [ result |-> extract_biomarkers_from_ordered_list(d) \o extract_biomarkers_from_content(d),
      ordered |-> Some(extract_biomarkers_from_ordered_list(d)),
      calls |-> << Call("expand_read_more", GPB),
                   Call("extract_biomarkers_from_ordered_list", GPB),
                   Call("extract_biomarkers_from_content", GPB) >> ]

\* mutant: the categorized strategy is tried before the ordered lists
get_product_biomarkers_ContentFirst(d) ==
    LET ordered == extract_biomarkers_from_ordered_list(d)
        content == extract_biomarkers_from_content(d)
        c0 == << Call("expand_read_more", GPB), Call("extract_biomarkers_from_content", GPB) >>
        c1 == Append(c0, Call("extract_biomarkers_from_ordered_list", GPB))
        c2 == Append(c1, Call("wait_for_selector_ul", GPB))
    IN IF content # <<>>
       THEN [ result |-> content, ordered |-> Null, calls |-> c0 ]
       ELSE IF ordered # <<>>
       THEN [ result |-> ordered, ordered |-> Some(ordered), calls |-> c1 ]
       ELSE [ result |-> SimpleMarkers(d), ordered |-> Some(ordered), calls |-> c2 ]

\* [result, ordered, calls]: the list returned, what the ordered-list strategy
\* returned (Null: not invoked), and the collaborators invoked, in order
get_product_biomarkers(d) ==
    LET ordered_list_markers == extract_biomarkers_from_ordered_list(d)
        biomarkers == extract_biomarkers_from_content(d)
        c0 == << Call("expand_read_more", GPB), Call("extract_biomarkers_from_ordered_list", GPB) >>
        c1 == Append(c0, Call("extract_biomarkers_from_content", GPB))
        c2 == Append(c1, Call("wait_for_selector_ul", GPB))
    IN IF ordered_list_markers # <<>>
       THEN [ result |-> ordered_list_markers, ordered |-> Some(ordered_list_markers),
              calls |-> c0 ]
       ELSE IF biomarkers # <<>>
       THEN [ result |-> biomarkers, ordered |-> Some(ordered_list_markers), calls |-> c1 ]
       ELSE [ result |-> SimpleMarkers(d), ordered |-> Some(ordered_list_markers),
              calls |-> IF d.ul = Null THEN c2 ELSE Append(c2, Call("evaluate_ul", GPB)) ]

(***************************************************************************)
(* visit_product_page                                                      *)
(***************************************************************************)
VPP == "visit_product_page"

\* max_attempts of the biomarker phase
max_attempts == 3

\* the navigation attempts a visit can make: DefaultMaxRetries rounds of the strategies
MaxGotos == DefaultMaxRetries * Len(strategies)

\* the outcomes of the navigation attempts of one visit: the first k fail
GotoScripts == { [ n \in 1..MaxGotos |-> n > k ] : k \in 0..MaxGotos }

\* what the site and the network do during one visit:
\*   goto    : the outcome of the n-th page.goto
\*   cookie  : the consent dialog: "absent", "present", "raises" (the click fails)
\*   content : whether the price or description region appears within the wait
\*   price   : what the price element gives
\*   doc     : the document, and delay: the number of biomarker attempts made
\*             before its description content is in the DOM
\*   fault   : the statement of the try block at which an Exception no helper
\*             handles is raised (Null: none): "cookies" (the cookie step), "price"
\*             (the price step, before get_product_price is called), "attempt" (the
\*             first pass of the biomarker loop, inside its inner try), "log" (the
\*             final log_product_info, after the record is assembled)
Faults == { Null, Some("cookies"), Some("price"), Some("attempt"), Some("log") }
Envs ==
    [ goto : GotoScripts, cookie : {"absent", "present", "raises"}, content : BOOLEAN,
      price : PriceEnvs, doc : Docs, delay : 0..max_attempts, fault : Faults ]

\* str(e) of that exception
FaultMessage == "out of memory"

ViewAt(env, attempt) == IF attempt >= env.delay THEN env.doc ELSE Blank(env.doc)

\* the dict main hands to visit_product_page: name, link and source_url set, no other key
InitialProduct(stub, url) ==
    [ name |-> stub.name, link |-> stub.link, source_url |-> url,
      price |-> Null, biomarkers |-> <<>>, biomarker_count |-> Null,
      category_count |-> Null, extraction_attempts |-> Null,
      error |-> Null, skipped |-> Null, reason |-> Null ]

\* the except branch of visit_product_page
ErrorRecord(p, e) ==
    [ p EXCEPT !.price = Null, !.biomarkers = <<>>, !.biomarker_count = Some(0),
               !.error = Some(e) ]

\* the zero-price branch
SkippedRecord(p) ==
    [ p EXCEPT !.price = Some(0), !.biomarkers = <<>>, !.biomarker_count = Some(0),
               !.skipped = Some(TRUE), !.reason = Some("Zero price product") ]

\* mutant: no error is recorded when nothing was found
FinalRecord_NoError(p, price, bs, attempt) ==
    LET counts == count_biomarkers(bs)
    IN [ p EXCEPT !.price = price, !.biomarkers = bs,
                  !.extraction_attempts = Some(attempt + 1),
                  !.biomarker_count = Some(counts.total),
                  !.category_count = IF counts.categories # Null /\ counts.categories # Some(0)
                                     THEN counts.categories ELSE @ ]

\* the record assembled after the biomarker attempts
FinalRecord(p, price, bs, attempt) ==
    LET counts == count_biomarkers(bs)
    IN [ p EXCEPT !.price = price, !.biomarkers = bs,
                  !.extraction_attempts = Some(attempt + 1),
                  !.biomarker_count = Some(counts.total),
                  !.category_count = IF counts.categories # Null /\ counts.categories # Some(0)
                                     THEN counts.categories ELSE @,
                  !.error = IF counts.total = 0
                            THEN Some("No biomarkers found after multiple attempts") ELSE @ ]

\* mutant: no settle pause
Settle_Never(expanded) == <<>>

\* if expanded: await asyncio.sleep(2)
Settle(expanded) == IF expanded = Some(TRUE) THEN << SleepCall(2) >> ELSE <<>>

\* mutant: the loop does not break on a non-empty result
Found_Never(biomarkers) == FALSE

\* mutant: the loop ends after the first pass that returns, empty or not
Found_Always(biomarkers) == TRUE

\* if biomarkers: ... break
Found(biomarkers) == biomarkers # <<>>

\* for attempt in range(max_attempts): expand, settle, extract, break when non-empty;
\* an exception inside a pass is logged, the pass ends and the loop goes on.
\* tries keeps, for every get_product_biomarkers call, the document it saw and what
\* it returned and invoked.
RECURSIVE BioAttempts(_, _, _, _)
BioAttempts(attempt, env, calls, tries) ==
    LET d == ViewAt(env, attempt)
        c1 == Append(calls, Call("expand_read_more", VPP))
              \o Settle(expand_read_more(DomOf(d), "ok").ret)
        g == get_product_biomarkers(d)
        c2 == Append(c1, Call("get_product_biomarkers", VPP)) \o g.calls
        t2 == Append(tries, [ doc |-> d, result |-> g.result, ordered |-> g.ordered,
                              calls |-> g.calls ])
    IN IF env.fault = Some("attempt") /\ attempt = 0
       THEN IF attempt < max_attempts - 1
            THEN BioAttempts(attempt + 1, env, Append(calls, SleepCall(3)), tries)
            ELSE [ biomarkers |-> <<>>, attempt |-> attempt, calls |-> calls, tries |-> tries ]
       ELSE IF Found(g.result)
       THEN [ biomarkers |-> g.result, attempt |-> attempt, calls |-> c2, tries |-> t2 ]
       ELSE IF attempt < max_attempts - 1
       THEN BioAttempts(attempt + 1, env, Append(c2, SleepCall(3)), t2)
       ELSE [ biomarkers |-> g.result, attempt |-> attempt, calls |-> c2, tries |-> t2 ]

\* mutant: the exception is not handled
CookiesExcept_Reraise == [ ret |-> Null, raised |-> TRUE ]

\* except Exception as e: logger.warning(...); return False
CookiesExcept == [ ret |-> Some(FALSE), raised |-> FALSE ]

\* [ret, raised]: True when the consent button was found and clicked, False when
\* there is none; a query or a click that raises ("raises") ends in the handler
handle_cookies(cookie) ==
    IF cookie = "raises" THEN CookiesExcept
    ELSE [ ret |-> Some(cookie = "present"), raised |-> FALSE ]

\* a collaborator call of the visit with the value it returned
CallRet(name, ret) == [ op |-> name, by |-> VPP, ret |-> ret ]

\* mutant: a failed load is not noticed
PageLoaded_Always(load) == TRUE

\* page_loaded = await try_load_page(...); if not page_loaded: raise
PageLoaded(load) == load.ret = Some(TRUE)

\* mutant: the check is for None instead of 0
IsZeroPrice_NoneOnly(price) == price = Null

\* mutant: if not price
IsZeroPrice_Falsy(price) == price = Null \/ price = Some(0)

\* if price == 0
IsZeroPrice(price) == price = Some(0)

\* mutant: the exception is not handled, the record is left as it was when it was raised
Except_Reraise(p, e) == [ product |-> p, raised |-> TRUE ]

\* except Exception as e: the error record is returned
Except(p, e) == [ product |-> ErrorRecord(p, e), raised |-> FALSE ]

\* [product, raised, calls, page_loaded, price, tries]: the record returned, whether
\* an exception left the function, the collaborators invoked in order, and the locals
\* page_loaded and price (Null: not assigned, or None)
visit_product_page(p, env) ==
    LET load == try_load_page(DefaultMaxRetries, env.goto)
        c0 == Append(<<>>, Call("try_load_page", VPP)) \o load.calls
        price == get_product_price(env.price)
        cookies == handle_cookies(env.cookie)
        cc == Append(c0, CallRet("handle_cookies", cookies.ret = Some(TRUE)))
        cw == Append(cc, CallRet("wait_for_selector", env.content))
        c1 == Append(cw, CallRet("get_product_price", price))
        a == BioAttempts(0, env, c1, <<>>)
        final == FinalRecord(p, price, a.biomarkers, a.attempt)
        cl == Append(a.calls, Call("log_product_info", VPP))
    IN IF ~PageLoaded(load)
       THEN Except(p, "Failed to load page after multiple attempts") @@
            [ calls |-> c0, page_loaded |-> load.ret, price |-> Null, tries |-> <<>> ]
       ELSE IF env.fault = Some("cookies") \/ cookies.raised
       THEN Except(p, FaultMessage) @@
            [ calls |-> c0, page_loaded |-> load.ret, price |-> Null, tries |-> <<>> ]
       ELSE IF env.fault = Some("price")
       THEN Except(p, FaultMessage) @@
            [ calls |-> cw, page_loaded |-> load.ret, price |-> Null, tries |-> <<>> ]
       ELSE IF IsZeroPrice(price)
       THEN [ product |-> SkippedRecord(p), raised |-> FALSE, calls |-> c1,
              page_loaded |-> load.ret, price |-> price, tries |-> <<>> ]
       ELSE IF env.fault = Some("log")
       THEN Except(final, FaultMessage) @@
            [ calls |-> cl, page_loaded |-> load.ret, price |-> price, tries |-> a.tries ]
       ELSE [ product |-> final, raised |-> FALSE, calls |-> cl,
              page_loaded |-> load.ret, price |-> price, tries |-> a.tries ]

\* the visit as the history variable keeps it
VisitRecord(stub, env, r) ==
    [ stub |-> Some(stub), env |-> Some(env), called |-> TRUE, product |-> Some(r.product),
      raised |-> r.raised, calls |-> r.calls, page_loaded |-> r.page_loaded,
      price |-> r.price, tries |-> r.tries ]

(***************************************************************************)
(* SpecVisit: a visit_product_page call, for every stub and every          *)
(* behaviour of the site during the visit                                  *)
(***************************************************************************)
InitVisit ==
    /\ file = NoFile
    /\ now = 0
    /\ PureIdle
    /\ lastSave = NoSave
    /\ lastLoad = NoLoad
    /\ \E stub \in Stubs, env \in Envs :
         lastVisit = [ NoVisit EXCEPT !.stub = Some(stub), !.env = Some(env) ]
    /\ MainIdle

VisitCall ==
    /\ ~lastVisit.called
    /\ LET r == visit_product_page(InitialProduct(lastVisit.stub[1], urls[1]), lastVisit.env[1])
       IN lastVisit' = VisitRecord(lastVisit.stub[1], lastVisit.env[1], r)
    /\ UNCHANGED <<pure, file, now, lastSave, lastLoad, pc, urlIdx, products, prodIdx, visited>>

NextVisit == VisitCall

SpecVisit == InitVisit /\ [][NextVisit]_vars

(***************************************************************************)
(* main: for url in urls: scrape_page, then visit and save stub by stub    *)
(***************************************************************************)
\* the bound on the number of stubs scrape_page returns for one listing
MaxProducts == 2

RECURSIVE SeqsUpTo(_, _)
SeqsUpTo(S, n) ==
    IF n = 0 THEN { <<>> }
    ELSE SeqsUpTo(S, n - 1) \cup
         { Append(q, x) : q \in { r \in SeqsUpTo(S, n - 1) : Len(r) = n - 1 }, x \in S }

\* what scrape_page can return: any sequence of stubs, a link possibly twice
Listings == SeqsUpTo(Stubs, MaxProducts)

\* the behaviours of the site during the visits of a run, one for each kind of
\* record a visit returns: a failed load, a zero price, a flat list, a categorized
\* list without a price, and no biomarkers after all attempts
AllGotos(ok) == [ n \in 1..MaxGotos |-> ok ]
Site(goto, price, d, delay) ==
    [ goto |-> goto, cookie |-> "absent", content |-> TRUE, price |-> price, doc |-> d,
      delay |-> delay, fault |-> Null ]
RunEnvs ==
    { Site(AllGotos(FALSE), Some(PriceText("€ 149,00", Some(14900))), DocOlAndCat, 0),
      Site(AllGotos(TRUE), Some(PriceText("€0,-", Null)), DocOlAndCat, 0),
      Site(AllGotos(TRUE), Some(PriceText("€ 149,00", Some(14900))), DocOlAndCat, 0),
      Site(AllGotos(TRUE), Null, DocCat, 0),
      Site(AllGotos(TRUE), Some(PriceText("€ 149,00", Some(14900))), DocCat, max_attempts) }

\* mutant: skipped records are saved too
ShouldSave_Always(updated_product) == TRUE

\* mutant: records carrying an error are not saved either
ShouldSave_NoErrors(updated_product) ==
    updated_product.skipped # Some(TRUE) /\ updated_product.error = Null

\* if not updated_product.get('skipped', False)
ShouldSave(updated_product) == updated_product.skipped # Some(TRUE)

Init ==
    /\ file = NoFile
    /\ now = 0
    /\ PureIdle
    /\ lastSave = NoSave
    /\ lastLoad = NoLoad
    /\ lastVisit = NoVisit
    /\ pc = "url" /\ urlIdx = 1 /\ products = <<>> /\ prodIdx = 0 /\ visited = <<>>

\* products = await scrape_page(page, url)
ScrapePage ==
    /\ pc = "url"
    /\ \E listing \in Listings : products' = listing
    /\ prodIdx' = 0
    /\ visited' = <<>>
    /\ lastVisit' = NoVisit
    /\ lastSave' = NoSave
    /\ pc' = "loop"
    /\ UNCHANGED <<pure, file, now, lastLoad, urlIdx>>

\* scrape_page raises (a navigation or selector timeout): the outer except logs it,
\* the browser is closed and the run ends
ScrapePageRaises ==
    /\ pc = "url"
    /\ pc' = "done"
    /\ UNCHANGED <<pure, file, now, lastSave, lastLoad, lastVisit, urlIdx, products, prodIdx, visited>>

\* product['source_url'] = url; updated_product = await visit_product_page(page, product)
VisitProduct ==
    /\ pc = "loop"
    /\ prodIdx < Len(products)
    /\ \E env \in RunEnvs :
         LET stub == products[prodIdx + 1]
         IN lastVisit' = VisitRecord(stub, env,
                            visit_product_page(InitialProduct(stub, urls[urlIdx]), env))
    /\ visited' = Append(visited, products[prodIdx + 1].link)
    /\ lastSave' = NoSave
    /\ pc' = "save"
    /\ UNCHANGED <<pure, file, now, lastLoad, urlIdx, products, prodIdx>>

\* await save_product_realtime(updated_product, url); await asyncio.sleep(2)
SaveProduct ==
    /\ pc = "save"
    /\ ShouldSave(lastVisit.product[1])
    /\ \E io \in IoOutcomes(file) :
         LET r == save_product_realtime(file, lastVisit.product[1], urls[urlIdx], now + 1, io)
         IN /\ file' = r.file
            /\ lastSave' = SaveRecord(file, lastVisit.product[1], urls[urlIdx], now + 1, io)
            /\ IF r.raised
               THEN pc' = "except" /\ prodIdx' = prodIdx
               ELSE pc' = "loop" /\ prodIdx' = prodIdx + 1
    /\ now' = now + 1
    /\ UNCHANGED <<pure, lastLoad, lastVisit, urlIdx, products, visited>>

\* an Exception is raised in the body of the per-product try after the visit has
\* returned and before save_product_realtime is entered: updated_product is dropped
IterationRaises ==
    /\ pc = "save"
    /\ pc' = "except"
    /\ lastVisit' = NoVisit
    /\ UNCHANGED <<pure, file, now, lastSave, lastLoad, urlIdx, products, prodIdx, visited>>

\* mutant: the handler ends the run
OnIterationError_Abort(idx) == [ pc |-> "done", prodIdx |-> idx ]

\* except Exception as e: logger.error(...); continue
OnIterationError(idx) == [ pc |-> "loop", prodIdx |-> idx + 1 ]

ContinueAfterError ==
    /\ pc = "except"
    /\ pc' = OnIterationError(prodIdx).pc
    /\ prodIdx' = OnIterationError(prodIdx).prodIdx
    /\ UNCHANGED <<pure, file, now, lastSave, lastLoad, lastVisit, urlIdx, products, visited>>

\* logger.info("Not saving skipped product"); await asyncio.sleep(2)
SkipProduct ==
    /\ pc = "save"
    /\ ~ShouldSave(lastVisit.product[1])
    /\ prodIdx' = prodIdx + 1
    /\ pc' = "loop"
    /\ UNCHANGED <<pure, file, now, lastSave, lastLoad, lastVisit, urlIdx, products, visited>>

\* the inner loop is exhausted: the next url, or the end of the run
NextUrl ==
    /\ pc = "loop"
    /\ prodIdx = Len(products)
    /\ IF urlIdx < Len(urls)
       THEN urlIdx' = urlIdx + 1 /\ pc' = "url"
       ELSE urlIdx' = urlIdx /\ pc' = "done"
    /\ UNCHANGED <<pure, file, now, lastSave, lastLoad, lastVisit, products, prodIdx, visited>>

Next ==
    \/ ScrapePage
    \/ ScrapePageRaises
    \/ VisitProduct
    \/ SaveProduct
    \/ SkipProduct
    \/ IterationRaises
    \/ ContinueAfterError
    \/ NextUrl

Spec == Init /\ [][Next]_vars

(***************************************************************************)
(* SpecLoad: a try_load_page call, for every max_retries up to             *)
(* MaxRetriesArg and every outcome of every navigation attempt             *)
(***************************************************************************)
InitLoad ==
    /\ file = NoFile
    /\ now = 0
    /\ PureIdle
    /\ lastSave = NoSave
    /\ \E m \in 0..MaxRetriesArg :
         \E script \in Scripts(m * Len(strategies)) :
           lastLoad = [ NoLoad EXCEPT !.max_retries = m, !.script = script ]
    /\ lastVisit = NoVisit
    /\ MainIdle

LoadCall ==
    /\ ~lastLoad.called
    /\ LET r == try_load_page(lastLoad.max_retries, lastLoad.script)
       IN lastLoad' = [ lastLoad EXCEPT !.called = TRUE, !.ret = r.ret,
                                        !.raised = r.raised, !.calls = r.calls ]
    /\ UNCHANGED <<pure, file, now, lastSave, lastVisit, pc, urlIdx, products, prodIdx, visited>>

NextLoad == LoadCall

SpecLoad == InitLoad /\ [][NextLoad]_vars

(***************************************************************************)
(* SpecPure: count_biomarkers, the advisor's flattening and                *)
(* get_product_price, each applied to an input drawn from a bounded set    *)
(***************************************************************************)
\* the bounds on the biomarker sets: markers in a list, groups in a set
MaxMarkers == 2
MaxGroups == 2

MarkerNames == { "ALAT", "Glucose" }
MarkerLists == SeqsUpTo(MarkerNames, MaxMarkers)

\* a flat set: a list of str; a categorized set: a non-empty list of groups
FlatSets == { [ i \in 1..Len(ms) |-> Str(ms[i]) ] : ms \in MarkerLists }
Groups == { Group("Lever", ms) : ms \in MarkerLists }
CategorizedSets == SeqsUpTo(Groups, MaxGroups) \ { <<>> }
BiomarkerSets == FlatSets \cup CategorizedSets

\* mutant: only the markers of the first group are taken
product_biomarkers_FirstGroup(biomarkers) ==
    IF biomarkers = <<>> THEN <<>>
    ELSE IF biomarkers[1].t = "dict"
         THEN [ j \in 1..Len(biomarkers[1].markers) |-> Str(biomarkers[1].markers[j]) ]
         ELSE biomarkers

\* the list product_biomarkers the advisor builds from product["biomarkers"]: the
\* markers of all groups in order, or the list itself when it is flat
product_biomarkers(biomarkers) ==
    IF biomarkers = <<>> THEN <<>>
    ELSE IF biomarkers[1].t = "dict"
         THEN Concat([ k \in 1..Len(biomarkers) |->
                         [ j \in 1..Len(biomarkers[k].markers) |-> Str(biomarkers[k].markers[j]) ] ])
         ELSE biomarkers

\* the labels of the trigger
Labels == { << "Lees meer" >>, << "Lees minder" >>, << "Toon alles" >>,
            << "Lees meer", "Lees meer" >> }

\* the DOMs the expansion is applied to: every combination of the elements being
\* there and of their states; an element that is absent has no state
Doms ==
    { Dom(b.button, b.active, b.label, c.container, c.expanded, c.content, c.display) :
        b \in { [ button |-> FALSE, active |-> FALSE, label |-> <<>> ] } \cup
              [ button : { TRUE }, active : BOOLEAN, label : Labels ],
        c \in { [ container |-> FALSE, expanded |-> FALSE, content |-> FALSE, display |-> "none" ] }
              \cup [ container : { TRUE }, expanded : BOOLEAN, content : { FALSE },
                     display : { "none" } ]
              \cup [ container : { TRUE }, expanded : BOOLEAN, content : { TRUE },
                     display : { "none", "block" } ] }

\* the list items the ordered-list strategy is applied to: every combination of
\* what the filter tests, the empty item among them
Items ==
    { ItemEmpty } \cup
    { Item("x", f.instrOl, FALSE, f.vocab, f.abbr, f.first, f.title) :
        f \in { g \in [ instrOl : BOOLEAN, vocab : BOOLEAN, abbr : BOOLEAN,
                         first : { "upper", "lower", "other" }, title : BOOLEAN ] :
                  g.title => g.first = "upper" } }

\* the price elements get_product_price is applied to
PriceInputs ==
    PriceEnvs \cup
    { Some(PriceText("0", Some(0))), Some(PriceText("0", Null)),
      Some(PriceText("€0", Some(0))), Some(PriceText("€0", Null)),
      Some(PriceText("0,-", Some(0))),
      Some(PriceText("€ 1.299,00", Some(129900))),
      Some(PriceText("", Null)),
      Some(PriceTextRaising("€ 12,50")), Some(PriceTextRaising("0,-")) }

InitPure ==
    /\ file = NoFile
    /\ now = 0
    /\ lastSave = NoSave
    /\ lastLoad = NoLoad
    /\ lastVisit = NoVisit
    /\ MainIdle
    /\ scrape = NoScrape /\ sched = NoSched /\ cache = NoCache
    /\ \/ /\ \E bs \in BiomarkerSets : lastCount = [ NoCount EXCEPT !.biomarkers = bs ]
          /\ lastPrice = NoPrice /\ lastExpand = NoExpand /\ lastItem = NoItem
       \/ /\ \E e \in PriceInputs : lastPrice = [ NoPrice EXCEPT !.element = e ]
          /\ lastCount = NoCount /\ lastExpand = NoExpand /\ lastItem = NoItem
       \/ /\ \E dom \in Doms, api \in ExpandApis :
                lastExpand = [ NoExpand EXCEPT !.dom = Some(dom), !.api = api ]
          /\ lastCount = NoCount /\ lastPrice = NoPrice /\ lastItem = NoItem
       \/ /\ \E it \in Items : lastItem = [ NoItem EXCEPT !.item = Some(it) ]
          /\ lastCount = NoCount /\ lastPrice = NoPrice /\ lastExpand = NoExpand

\* total_count, category_count = count_biomarkers(biomarkers)
CountCall ==
    /\ lastPrice = NoPrice /\ lastExpand = NoExpand /\ lastItem = NoItem
    /\ ~lastCount.counted
    /\ lastCount' = [ lastCount EXCEPT !.counted = TRUE,
                                       !.total = Some(count_biomarkers(lastCount.biomarkers).total),
                                       !.categories = count_biomarkers(lastCount.biomarkers).categories ]
    /\ UNCHANGED <<run, sched, cache, lastPrice, lastExpand, lastItem, scrape>>

\* the flattening, the count of its result, and the flattening of its result
FlattenCall ==
    /\ lastPrice = NoPrice /\ lastExpand = NoExpand /\ lastItem = NoItem
    /\ ~lastCount.flattened
    /\ LET flat == product_biomarkers(lastCount.biomarkers)
       IN lastCount' = [ lastCount EXCEPT !.flattened = TRUE, !.flat = flat,
                                          !.recount = Some(count_biomarkers(flat).total),
                                          !.again = product_biomarkers(flat) ]
    /\ UNCHANGED <<run, sched, cache, lastPrice, lastExpand, lastItem, scrape>>

\* price = await get_product_price(page)
PriceCall ==
    /\ lastCount = NoCount /\ lastExpand = NoExpand /\ lastItem = NoItem
    /\ ~lastPrice.called
    /\ lastPrice' = [ lastPrice EXCEPT !.called = TRUE,
                                       !.ret = get_product_price(lastPrice.element) ]
    /\ UNCHANGED <<run, sched, cache, lastCount, lastExpand, lastItem, scrape>>

\* one pass of the visitor up to the extractor's own expansion: expanded = await
\* expand_read_more(page); if expanded: sleep(2); get_product_biomarkers, which
\* calls expand_read_more again. An exception of the first call ends the pass.
ExpandCall ==
    /\ lastExpand.dom # Null
    /\ ~lastExpand.called
    /\ LET first == expand_read_more(lastExpand.dom[1], lastExpand.api)
           second == expand_read_more(first.dom, lastExpand.api)
       IN lastExpand' =
            [ lastExpand EXCEPT
                !.called = TRUE, !.ret = first.ret, !.raised = first.raised,
                !.after = Some(first.dom),
                !.calls = IF first.raised THEN << Call("expand_read_more", VPP) >>
                          ELSE << Call("expand_read_more", VPP) >>
                               \o Settle(first.ret)
                               \o << Call("get_product_biomarkers", VPP),
                                     Call("expand_read_more", GPB) >>,
                !.twice = IF first.raised THEN Null ELSE Some(second.dom) ]
    /\ UNCHANGED <<run, sched, cache, lastCount, lastPrice, lastItem, scrape>>

\* the ordered-list strategy on a description whose only ordered list has one item
ClassifyCall ==
    /\ lastItem.item # Null
    /\ ~lastItem.called
    /\ lastItem' =
         [ lastItem EXCEPT
             !.called = TRUE,
             !.result = extract_biomarkers_from_ordered_list(
                            Doc("absent", << << lastItem.item[1] >> >>, <<>>, Null)) ]
    /\ UNCHANGED <<run, sched, cache, lastCount, lastPrice, lastExpand, scrape>>

NextPure ==
    \/ CountCall
    \/ FlattenCall
    \/ PriceCall
    \/ ExpandCall
    \/ ClassifyCall

SpecPure == InitPure /\ [][NextPure]_vars

(***************************************************************************)
(* scrape_page: the listing pages followed by their next links             *)
(***************************************************************************)
\* the bounds on the pages of a listing and on the pages scrape_page is followed
\* through
MaxPages == 2
MaxPageNum == MaxPages + 1

\* what one page lists: some of the stubs, in some order (none: the page shows no
\* product)
PageContents ==
    { q \in SeqsUpTo(Stubs, Cardinality(Stubs)) :
        \A i, j \in 1..Len(q) : q[i] = q[j] => i = j }

\* a listing page: the stubs get_products reads of it and the page its
\* li.next a[rel="next"] leads to (0: no such link, has_next_page returns None)
ListingPage(stubs, next) == [ products |-> stubs, next |-> next ]

\* the listings: one to MaxPages pages, a link possibly on two pages, and any next
\* links between them
PageSeqs ==
    UNION { [ 1..n -> { ListingPage(stubs, next) :
                          stubs \in PageContents, next \in 0..n } ] :
            n \in 1..MaxPages }

\* mutant: the last page of the listing links to itself
has_next_page_Self(pages, current) ==
    IF pages[current].next = 0 THEN current ELSE pages[current].next

\* the href of li.next a[rel="next"] of the current page, 0 for None
has_next_page(pages, current) == pages[current].next

InitScrape ==
    /\ file = NoFile
    /\ now = 0
    /\ lastSave = NoSave
    /\ lastLoad = NoLoad
    /\ lastVisit = NoVisit
    /\ MainIdle
    /\ lastCount = NoCount /\ lastPrice = NoPrice /\ lastExpand = NoExpand
    /\ lastItem = NoItem /\ sched = NoSched /\ cache = NoCache
    /\ \E ps \in PageSeqs : scrape = [ NoScrape EXCEPT !.pages = ps, !.pc = "start" ]

\* await page.goto(url); await handle_cookies(page); all_products = [];
\* page_num = 1. A page.goto that raises leaves scrape_page.
ScrapeStart ==
    /\ scrape.pc = "start"
    /\ \E ok \in BOOLEAN :
         scrape' = IF ok THEN [ scrape EXCEPT !.pc = "page", !.current = 1, !.page_num = 1 ]
                   ELSE [ scrape EXCEPT !.pc = "raised" ]
    /\ UNCHANGED <<run, sched, cache, lastCount, lastPrice, lastExpand, lastItem>>

\* one iteration of while True: get_products (its wait_for_selector raises on a
\* page without products), all_products.extend(products), has_next_page, and
\* either the break and the return or the goto of the next page
ScrapeIteration ==
    /\ scrape.pc = "page"
    /\ LET here == scrape.pages[scrape.current]
           extended == [ scrape EXCEPT !.all_products = @ \o here.products,
                                       !.seen = Append(@, scrape.current) ]
       IN IF here.products = <<>> THEN scrape' = [ scrape EXCEPT !.pc = "raised" ]
          ELSE IF has_next_page(scrape.pages, scrape.current) = 0
          THEN scrape' = [ extended EXCEPT !.pc = "done" ]
          ELSE /\ scrape.page_num < MaxPageNum
               /\ \E ok \in BOOLEAN :
                    scrape' = IF ok THEN [ extended EXCEPT
                                             !.current = has_next_page(scrape.pages,
                                                                       scrape.current),
                                                           !.page_num = @ + 1 ]
                              ELSE [ extended EXCEPT !.pc = "raised" ]
    /\ UNCHANGED <<run, sched, cache, lastCount, lastPrice, lastExpand, lastItem>>

NextScrape ==
    \/ ScrapeStart
    \/ ScrapeIteration

SpecScrape == InitScrape /\ [][NextScrape]_vars

\* scrape_page is awaited by main and nothing else runs: a step that can be taken
\* is taken
SpecScrapeFair == SpecScrape /\ WF_vars(NextScrape)

(***************************************************************************)
(* The product loop of main on the event loop: where a coroutine can be    *)
(* suspended, and what the others may do meanwhile                         *)
(***************************************************************************)
\* mutant: one task for every product (asyncio.gather over the products)
WorkerOf_Gather(i) == i

\* the coroutine that processes the i-th product: main itself, in its for loop
WorkerOf(i) == 1

\* the places of one iteration: "todo" (not begun), "visit" (inside await
\* visit_product_page), "save" (the visit has returned, save_product_realtime is
\* about to read the file), "write" (the catalog is read and merged, not yet
\* written), "sleep" (inside await asyncio.sleep(2)), "done".
\* A coroutine can be suspended only inside an await that waits for something:
\* the visit and the sleep. save_product_realtime contains no await.
Suspends(place) == place \in { "todo", "visit", "sleep", "done" }

\* the links of the products of one listing; the file holds the links saved for
\* earlier listings
ItemLists == { [ i \in 1..Len(l) |-> l[i].link ] : l \in Listings \ { <<>> } }

InitSched ==
    /\ file = NoFile
    /\ now = 0
    /\ lastSave = NoSave
    /\ lastLoad = NoLoad
    /\ lastVisit = NoVisit
    /\ MainIdle
    /\ lastCount = NoCount /\ lastPrice = NoPrice /\ lastExpand = NoExpand
    /\ lastItem = NoItem /\ scrape = NoScrape /\ cache = NoCache
    /\ \E items \in ItemLists, links \in SUBSET Links :
         sched = [ NoSched EXCEPT !.items = items,
                                  !.file = links,
                                  !.pc = [ i \in 1..Len(items) |-> "todo" ],
                                  !.held = [ i \in 1..Len(items) |-> Null ] ]

\* the event loop runs one coroutine at a time: the iteration of product i can
\* take a step only while every other iteration is suspended or not running
CanRun(i) == \A j \in DOMAIN sched.pc : j # i => Suspends(sched.pc[j])

\* updated_product = await visit_product_page(page, product): a coroutine begins
\* the iteration of its next product when its earlier products are done
BeginVisit(i) ==
    /\ sched.pc[i] = "todo"
    /\ CanRun(i)
    /\ \A j \in 1..(i - 1) : WorkerOf(j) = WorkerOf(i) => sched.pc[j] = "done"
    /\ sched' = [ sched EXCEPT !.pc[i] = "visit" ]
    /\ UNCHANGED <<run, cache, lastCount, lastPrice, lastExpand, lastItem, scrape>>

\* the visit returns; if not updated_product.get('skipped', False): save, else
\* the sleep
VisitReturns(i) ==
    /\ sched.pc[i] = "visit"
    /\ CanRun(i)
    /\ \E skipped \in BOOLEAN :
         sched' = [ sched EXCEPT !.pc[i] = IF skipped THEN "sleep" ELSE "save" ]
    /\ UNCHANGED <<run, cache, lastCount, lastPrice, lastExpand, lastItem, scrape>>

\* with open(filename, 'r') as f: data = json.load(f), and the merge
SaveRead(i) ==
    /\ sched.pc[i] = "save"
    /\ CanRun(i)
    /\ sched' = [ sched EXCEPT !.pc[i] = "write",
                               !.held[i] = Some(sched.file \cup { sched.items[i] }) ]
    /\ UNCHANGED <<run, cache, lastCount, lastPrice, lastExpand, lastItem, scrape>>

\* with open(filename, 'w') as f: json.dump(data, f); then await asyncio.sleep(2)
SaveWrite(i) ==
    /\ sched.pc[i] = "write"
    /\ CanRun(i)
    /\ sched' = [ sched EXCEPT !.pc[i] = "sleep",
                               !.file = sched.held[i][1],
                               !.held[i] = Null,
                               !.saved = @ \cup { sched.items[i] } ]
    /\ UNCHANGED <<run, cache, lastCount, lastPrice, lastExpand, lastItem, scrape>>

\* the sleep ends, the iteration is over
EndIteration(i) ==
    /\ sched.pc[i] = "sleep"
    /\ CanRun(i)
    /\ sched' = [ sched EXCEPT !.pc[i] = "done" ]
    /\ UNCHANGED <<run, cache, lastCount, lastPrice, lastExpand, lastItem, scrape>>

NextSched ==
    \/ \E i \in DOMAIN sched.pc : BeginVisit(i)
    \/ \E i \in DOMAIN sched.pc : VisitReturns(i)
    \/ \E i \in DOMAIN sched.pc : SaveRead(i)
    \/ \E i \in DOMAIN sched.pc : SaveWrite(i)
    \/ \E i \in DOMAIN sched.pc : EndIteration(i)

SpecSched == InitSched /\ [][NextSched]_vars

(***************************************************************************)
(* redis_cache: get_cached, set_cached, cached_or_compute                  *)
(***************************************************************************)
\* the bound on the number of cached_or_compute calls
MaxCacheCalls == 2

\* the keys generate_cache_key gives for the (cache_type, data) pairs of the calls
CacheKeys == { "k1", "k2" }

\* the strings compute_func returns and Redis holds, the empty string among them
CacheValues == { "", "a", "b" }

\* the contents of the Redis store: some keys, each with a value
Stores == UNION { [ ks -> CacheValues ] : ks \in SUBSET CacheKeys }

\* if value: / if cached_result: the truth value of a string
Truthy(value) == value # ""

\* redis_ok: whether the Redis command of the call succeeds; the exception of one
\* that does not is logged and None is returned
get_cached(client, store, key, redis_ok) ==
    IF ~client THEN Null
    ELSE IF ~redis_ok THEN Null
    ELSE IF key \in DOMAIN store /\ Truthy(store[key]) THEN Some(store[key])
    ELSE Null

\* [store, ret]: the store after redis_client.setex(key, ttl, value) and the status
set_cached(client, store, key, value, redis_ok) ==
    IF ~client THEN [ store |-> store, ret |-> FALSE ]
    ELSE IF ~redis_ok THEN [ store |-> store, ret |-> FALSE ]
    ELSE [ store |-> [ k \in DOMAIN store \cup { key } |->
                         IF k = key THEN value ELSE store[k] ],
           ret |-> TRUE ]

\* [ret, computes, store]: the value returned, the number of compute_func calls
\* (each returning result), and the store it leaves
cached_or_compute(client, store, key, result, get_ok, set_ok) ==
    IF ~client THEN [ ret |-> result, computes |-> 1, store |-> store ]
    ELSE LET cached_result == get_cached(client, store, key, get_ok)
         IN IF cached_result # Null /\ Truthy(cached_result[1])
            THEN [ ret |-> cached_result[1], computes |-> 0, store |-> store ]
            ELSE [ ret |-> result, computes |-> 1,
                   store |-> set_cached(client, store, key, result, set_ok).store ]

\* the store holds what earlier runs left in it; redis_client is set or not,
\* as initialize_redis left it
InitCache ==
    /\ file = NoFile
    /\ now = 0
    /\ lastSave = NoSave
    /\ lastLoad = NoLoad
    /\ lastVisit = NoVisit
    /\ MainIdle
    /\ lastCount = NoCount /\ lastPrice = NoPrice /\ lastExpand = NoExpand
    /\ lastItem = NoItem /\ scrape = NoScrape /\ sched = NoSched
    /\ \E client \in BOOLEAN, store \in Stores :
         cache = [ NoCache EXCEPT !.client = client, !.store = store ]

\* await redis_cache.cached_or_compute(cache_type, data, compute_func)
CacheCall ==
    /\ cache.calls < MaxCacheCalls
    /\ \E key \in CacheKeys, result \in CacheValues, get_ok \in BOOLEAN, set_ok \in BOOLEAN :
         LET r == cached_or_compute(cache.client, cache.store, key, result, get_ok, set_ok)
         IN cache' = [ cache EXCEPT
                         !.store = r.store,
                         !.calls = @ + 1,
                         !.last = Some([ key |-> key, before |-> cache.store,
                                         result |-> result, get_ok |-> get_ok,
                                         set_ok |-> set_ok, ret |-> r.ret,
                                         computes |-> r.computes, after |-> r.store ]) ]
    /\ UNCHANGED <<run, sched, lastCount, lastPrice, lastExpand, lastItem, scrape>>

\* an entry reaches the time-to-live setex gave it and is gone
Expire ==
    /\ \E key \in DOMAIN cache.store :
         cache' = [ cache EXCEPT !.store = [ k \in DOMAIN cache.store \ { key } |->
                                              cache.store[k] ] ]
    /\ UNCHANGED <<run, sched, lastCount, lastPrice, lastExpand, lastItem, scrape>>

NextCache ==
    \/ CacheCall
    \/ Expire

SpecCache == InitCache /\ [][NextCache]_vars

(***************************************************************************)
(* Claims about save_product_realtime, checked under SpecStore             *)
(***************************************************************************)
Catalog == file.data
LinkCount(data, l) == Cardinality({ i \in 1..Len(data.products) : data.products[i].link = l })
SourceCount(data, u) == Cardinality({ i \in 1..Len(data.products) : data.products[i].source_url = u })
CountOf(data, u) == IF u \in DOMAIN data.sources THEN data.sources[u].product_count ELSE 0

\* a step that is a successful save_product_realtime call
SaveOk == now' = now + 1 /\ lastSave'.ret # Null

\* C1: a successful merge of a record whose link is already in products (the second
\* merge of that link) leaves exactly one record with that link, which is the record
\* just merged (the second payload), leaves total_products as it was and leaves every
\* source's product_count as it was; a successful merge of a link that is not yet in
\* products (the first merge) increments product_count of its source URL by one.
C1_SecondMergeOverwrites ==
    [][ SaveOk =>
          LET p == lastSave'.p[1]
              u == lastSave'.base_url[1]
              old == IF file.state = "ok" THEN file.data ELSE EmptyCatalog(0)
          IN /\ LinkCount(file'.data, p.link) = 1
             /\ \E i \in 1..Len(file'.data.products) : file'.data.products[i] = p
             /\ IF LinkCount(old, p.link) > 0
                THEN /\ file'.data.total_products = old.total_products
                     /\ Len(file'.data.products) = Len(old.products)
                     /\ \A v \in Urls : CountOf(file'.data, v) = CountOf(old, v)
                ELSE /\ CountOf(file'.data, u) = CountOf(old, u) + 1
                     /\ \A v \in Urls \ {u} : CountOf(file'.data, v) = CountOf(old, v)
      ]_vars

\* C1 witness: the same link was merged a second time with a different payload
C1_Witness ==
    /\ lastSave.ret # Null
    /\ lastSave.product_exists
    /\ lastSave.replaced[1].biomarkers # lastSave.p[1].biomarkers
    /\ lastSave.replaced[1].biomarkers # <<>>
    /\ lastSave.p[1].biomarkers # <<>>
    /\ LinkCount(Catalog, lastSave.p[1].link) = 1

\* C2: whenever the catalog file holds a catalog, total_products = len(products)
C2_TotalIsLen ==
    file.state = "ok" => Catalog.total_products = Len(Catalog.products)

\* C2 witness: a catalog of two records, the last call having overwritten one of them
C2_Witness ==
    /\ file.state = "ok"
    /\ Len(Catalog.products) = 2
    /\ Catalog.total_products = 2
    /\ lastSave.product_exists

\* C3: the persisted products sequence holds at most one record per link
C3_UniqueLinks ==
    file.state = "ok" =>
        \A i, j \in 1..Len(Catalog.products) :
            Catalog.products[i].link = Catalog.products[j].link => i = j

\* C3 witness: a link was merged under two different source URLs and is held once
C3_Witness ==
    /\ file.state = "ok"
    /\ lastSave.product_exists
    /\ lastSave.replaced[1].source_url # lastSave.p[1].source_url
    /\ LinkCount(Catalog, lastSave.p[1].link) = 1
    /\ Len(Catalog.products) = 2

\* C4: for every source URL u of the catalog, sources[u].product_count is the number
\* of records of products whose source_url is u
C4_CountMatchesRecords ==
    file.state = "ok" =>
        \A u \in DOMAIN Catalog.sources :
            Catalog.sources[u].product_count = SourceCount(Catalog, u)

\* C36: the catalog file is never half-written: after a save_product_realtime call
\* that failed at any point the file is the complete catalog from before the call,
\* and after one that succeeded it is the complete merged catalog
C36_NeverHalfWritten ==
    /\ file.state \in { "absent", "ok" }
    /\ (lastSave.p # Null /\ lastSave.ret # Null) =>
          LinkCount(Catalog, lastSave.p[1].link) = 1

\* C38: a save_product_realtime call on a catalog file that is there and that
\* fails before its write step (the file cannot be read or is not valid JSON)
\* returns None and leaves the file with the content it had
C38_FailedLoadKeepsFile ==
    [][ (file.state # "absent" /\ lastSave'.io = Some("fail_early")) =>
          (file' = file /\ lastSave'.ret = Null /\ ~lastSave'.raised)
      ]_vars

\* C38 witness: a call has failed on a file that is not valid JSON
C38_Witness ==
    /\ lastSave.io = Some("fail_early")
    /\ file.state = "corrupt"
    /\ lastSave.ret = Null

\* C24: a successful merge of a record whose link is already in products puts the
\* record at the index of the one it replaces; the length of products is unchanged
\* and the record at every other index is the one that was there
C24_OverwriteKeepsPosition ==
    [][ (SaveOk /\ file.state = "ok" /\ LinkCount(file.data, lastSave'.p[1].link) > 0) =>
          LET p == lastSave'.p[1]
              old == file.data.products
              new == file'.data.products
          IN /\ Len(new) = Len(old)
             /\ \E i \in 1..Len(old) :
                   /\ old[i].link = p.link
                   /\ new[i] = p
                   /\ \A j \in 1..Len(old) : j # i => new[j] = old[j]
      ]_vars

\* C24 witness: the first of two records was overwritten with another payload
C24_Witness ==
    /\ lastSave.ret # Null
    /\ lastSave.product_exists
    /\ Len(Catalog.products) = 2
    /\ Catalog.products[1] = lastSave.p[1]
    /\ lastSave.replaced[1].biomarkers # lastSave.p[1].biomarkers
    /\ Catalog.products[2].link # lastSave.p[1].link

\* C25: a successful merge of a record whose link is not in products appends it at
\* the end, adds one to the product_count of the base URL, sets its last_updated to
\* the time of the call and leaves the entry of every other source URL as it was
C25_AppendCountsOnce ==
    [][ (SaveOk /\ LinkCount(IF file.state = "ok" THEN file.data ELSE EmptyCatalog(0),
                             lastSave'.p[1].link) = 0) =>
          LET p == lastSave'.p[1]
              u == lastSave'.base_url[1]
              old == IF file.state = "ok" THEN file.data ELSE EmptyCatalog(0)
              new == file'.data
          IN /\ new.products = Append(old.products, p)
             /\ new.sources[u].product_count = CountOf(old, u) + 1
             /\ new.sources[u].last_updated = now'
             /\ DOMAIN new.sources = DOMAIN old.sources \cup {u}
             /\ \A v \in DOMAIN old.sources \ {u} : new.sources[v] = old.sources[v]
      ]_vars

\* C25 witness: a second link was appended under a source URL that had one record,
\* the catalog holding another source URL as well
C25_Witness ==
    /\ lastSave.ret # Null
    /\ ~lastSave.product_exists
    /\ Len(Catalog.products) = 2
    /\ Catalog.products[2] = lastSave.p[1]
    /\ DOMAIN Catalog.sources = Urls
    /\ Catalog.sources[lastSave.base_url[1]].product_count = 2
    /\ Catalog.sources[lastSave.base_url[1]].last_updated = now

(***************************************************************************)
(* Claims about try_load_page, checked under SpecLoad                      *)
(***************************************************************************)
\* the goto calls of a call sequence, in order
RECURSIVE GotosOf(_)
GotosOf(calls) ==
    IF calls = <<>> THEN <<>>
    ELSE IF Head(calls).op = "goto" THEN <<Head(calls)>> \o GotosOf(Tail(calls))
         ELSE GotosOf(Tail(calls))

\* the n-th navigation attempt of the loops: round (n-1) \div 3, strategy (n-1) % 3 + 1
ExpectedGoto(n) == GotoCall((n - 1) \div Len(strategies), ((n - 1) % Len(strategies)) + 1)

Successes(script) == { n \in DOMAIN script : script[n] }
FirstSuccess(script) == CHOOSE n \in Successes(script) : \A k \in Successes(script) : n <= k

\* C5: if the n-th navigation attempt is the first to succeed, the attempts made are
\* exactly attempts 1..n, in the order domcontentloaded, load, networkidle within each
\* round, round after round; the successful goto is the last call made (no later
\* strategy, no later round, no sleep) and True is returned.
C5_StopsAtFirstSuccess ==
    (lastLoad.called /\ Successes(lastLoad.script) # {}) =>
        LET n == FirstSuccess(lastLoad.script)
            gotos == GotosOf(lastLoad.calls)
        IN /\ lastLoad.ret = Some(TRUE)
           /\ Len(gotos) = n
           /\ \A k \in 1..n : gotos[k] = ExpectedGoto(k)
           /\ lastLoad.calls[Len(lastLoad.calls)] = ExpectedGoto(n)

\* C5 witness: the second strategy of the second round was the first to succeed, while
\* later attempts would have succeeded too
C5_Witness ==
    /\ lastLoad.ret = Some(TRUE)
    /\ lastLoad.max_retries = DefaultMaxRetries
    /\ FirstSuccess(lastLoad.script) = 5
    /\ lastLoad.script[6]
    /\ NumGotos(lastLoad.calls) = 5
    /\ lastLoad.calls[Len(lastLoad.calls)].wait_until = "load"

\* C6: if every navigation attempt fails, the call makes exactly max_retries rounds of
\* all strategies (max_retries * 3 attempts), returns False and does not raise
C6_FailsAfterAllRounds ==
    (lastLoad.called /\ Successes(lastLoad.script) = {}) =>
        LET gotos == GotosOf(lastLoad.calls)
        IN /\ lastLoad.ret = Some(FALSE)
           /\ ~lastLoad.raised
           /\ Len(gotos) = lastLoad.max_retries * Len(strategies)
           /\ \A k \in 1..Len(gotos) : gotos[k] = ExpectedGoto(k)

\* C6 witness: the default three rounds, nine failed attempts
C6_Witness ==
    /\ lastLoad.called
    /\ lastLoad.max_retries = DefaultMaxRetries
    /\ Successes(lastLoad.script) = {}
    /\ NumGotos(lastLoad.calls) = 9
    /\ lastLoad.ret = Some(FALSE)

\* the position among the goto calls of the call at index i
GotoIndex(calls, i) == NumGotos(SubSeq(calls, 1, i))

\* C26: every sleep of try_load_page comes right after a round in which all
\* strategies failed and right before the first attempt of the next round, and
\* lasts 5 * k seconds after the k-th round; the last call is never a sleep, and
\* there is one sleep for every failed round that another round follows
C26_LinearBackoffBetweenRounds ==
    lastLoad.called =>
        LET calls == lastLoad.calls
            n == Len(strategies)
            gotos == NumGotos(calls)
        IN /\ \A i \in Ops(calls, "sleep") :
                 /\ i > n
                 /\ \A j \in 1..n : /\ calls[i - j].op = "goto"
                                    /\ calls[i - j].attempt = calls[i - 1].attempt
                                    /\ ~lastLoad.script[GotoIndex(calls, i - j)]
                 /\ calls[i].seconds = 5 * (calls[i - 1].attempt + 1)
                 /\ i < Len(calls)
                 /\ calls[i + 1].op = "goto"
                 /\ calls[i + 1].attempt = calls[i - 1].attempt + 1
                 /\ calls[i + 1].attempt < lastLoad.max_retries
           /\ Cardinality(Ops(calls, "sleep")) =
                 IF gotos = 0 THEN 0 ELSE (gotos - 1) \div n

\* C26 witness: three failed rounds, pauses of 5 and 10 seconds, none after the last
C26_Witness ==
    /\ lastLoad.called
    /\ lastLoad.ret = Some(FALSE)
    /\ NumGotos(lastLoad.calls) = 9
    /\ { lastLoad.calls[i].seconds : i \in Ops(lastLoad.calls, "sleep") } = { 5, 10 }
    /\ lastLoad.calls[Len(lastLoad.calls)].op = "goto"

(***************************************************************************)
(* Claims about get_product_biomarkers and visit_product_page, checked     *)
(* under SpecVisit                                                         *)
(***************************************************************************)
Invoked(calls, name) == Ops(calls, name) # {}

HasOrderedList(d) == d.ol # <<>>
HasCategorized(d) == \E k \in 1..Len(d.cat) : d.cat[k].list # Null

\* C7 as stated: in every get_product_biomarkers call on a document that holds both
\* an ordered list and a categorized structure, the result is the ordered-list
\* strategy's result and extract_biomarkers_from_content is not invoked
C7_OrderedListWheneverPresent ==
    \A k \in 1..Len(lastVisit.tries) :
        LET t == lastVisit.tries[k]
        IN (HasOrderedList(t.doc) /\ HasCategorized(t.doc)) =>
              /\ t.result = extract_biomarkers_from_ordered_list(t.doc)
              /\ ~Invoked(t.calls, "extract_biomarkers_from_content")

\* C7 amended: in every get_product_biomarkers call on a document that holds both an
\* ordered list and a categorized structure and whose ordered-list strategy returns a
\* non-empty list, the result is that list and extract_biomarkers_from_content is not
\* invoked
C7_OrderedListWhenNonEmpty ==
    \A k \in 1..Len(lastVisit.tries) :
        LET t == lastVisit.tries[k]
        IN (/\ HasOrderedList(t.doc) /\ HasCategorized(t.doc)
            /\ extract_biomarkers_from_ordered_list(t.doc) # <<>>) =>
              /\ t.result = extract_biomarkers_from_ordered_list(t.doc)
              /\ t.ordered = Some(t.result)
              /\ ~Invoked(t.calls, "extract_biomarkers_from_content")

\* C7 witness: both structures present, both strategies would yield markers, the
\* ordered list's are returned
C7_Witness ==
    \E k \in 1..Len(lastVisit.tries) :
        LET t == lastVisit.tries[k]
        IN /\ HasOrderedList(t.doc) /\ HasCategorized(t.doc)
           /\ extract_biomarkers_from_content(t.doc) # <<>>
           /\ t.result = << Str("Glucose"), Str("vrij T4 (FT4)") >>
           /\ lastVisit.product[1].biomarkers = t.result

ExtractionOps ==
    { "expand_read_more", "get_product_biomarkers", "extract_biomarkers_from_ordered_list",
      "extract_biomarkers_from_content", "wait_for_selector_ul", "evaluate_ul" }

\* C9: when the price resolves to 0, the visit returns right after get_product_price:
\* neither expand_read_more nor get_product_biomarkers nor any strategy is invoked,
\* and the record is marked skipped with a reason
C9_ZeroPriceReturnsImmediately ==
    (lastVisit.called /\ Invoked(lastVisit.calls, "get_product_price")
       /\ lastVisit.price = Some(0)) =>
        /\ \A name \in ExtractionOps : ~Invoked(lastVisit.calls, name)
        /\ lastVisit.calls[Len(lastVisit.calls)] = CallRet("get_product_price", Some(0))
        /\ lastVisit.tries = <<>>
        /\ lastVisit.product[1].skipped = Some(TRUE)
        /\ lastVisit.product[1].reason # Null

\* C9 witness: a page that loaded, shows "€0,-" and holds biomarkers to extract
C9_Witness ==
    /\ lastVisit.called
    /\ lastVisit.page_loaded = Some(TRUE)
    /\ lastVisit.env[1].price = Some(PriceText("€0,-", Null))
    /\ lastVisit.env[1].doc = DocOlAndCat
    /\ lastVisit.env[1].delay = 0
    /\ lastVisit.product[1].skipped = Some(TRUE)

\* C10: when try_load_page returns False, handle_cookies, get_product_price,
\* expand_read_more and get_product_biomarkers are not invoked, no exception leaves
\* the visit, and the record has price None, biomarkers [] and error set to the reason
C10_LoadFailureShortCircuits ==
    (lastVisit.called /\ Successes(lastVisit.env[1].goto) = {}) =>
        /\ lastVisit.page_loaded = Some(FALSE)
        /\ \A name \in ExtractionOps \cup { "handle_cookies", "wait_for_selector",
                                              "get_product_price" } :
               ~Invoked(lastVisit.calls, name)
        /\ ~lastVisit.raised
        /\ lastVisit.product[1].price = Null
        /\ lastVisit.product[1].biomarkers = <<>>
        /\ lastVisit.product[1].error = Some("Failed to load page after multiple attempts")

\* C10 witness: nine failed navigation attempts on a page that would have had a
\* price and biomarkers
C10_Witness ==
    /\ lastVisit.called
    /\ NumGotos(lastVisit.calls) = MaxGotos
    /\ lastVisit.page_loaded = Some(FALSE)
    /\ lastVisit.env[1].price = Some(PriceText("€ 149,00", Some(14900)))
    /\ lastVisit.env[1].doc = DocOlAndCat
    /\ lastVisit.product[1].error # Null

\* the visit reached the outer except handler from a statement after the page load
ReachedHandler(env) ==
    /\ Successes(env.goto) # {}
    /\ \/ env.fault \in { Some("cookies"), Some("price") }
       \/ env.fault = Some("log") /\ get_product_price(env.price) # Some(0)

Yielding(env) ==
    { i \in 0..(max_attempts - 1) :
        /\ ~(env.fault = Some("attempt") /\ i = 0)
        /\ get_product_biomarkers(ViewAt(env, i)).result # <<>> }
Least(S) == CHOOSE i \in S : \A j \in S : i <= j

\* C12: a visit that gets to the biomarker phase makes at most max_attempts passes,
\* whatever number of navigation attempts the page load took; it stops at the first
\* pass that yields a non-empty result, and extraction_attempts is the number of
\* passes made: i + 1 when pass i is the first to yield, max_attempts when none does
C12_AttemptsUntilFirstYield ==
    (lastVisit.called /\ Invoked(lastVisit.calls, "log_product_info")) =>
        LET env == lastVisit.env[1]
            n == IF Yielding(env) = {} THEN max_attempts ELSE Least(Yielding(env)) + 1
            made == Cardinality(Ops(lastVisit.calls, "get_product_biomarkers"))
            tries == lastVisit.tries
        IN /\ lastVisit.product[1].extraction_attempts = Some(n)
           /\ n <= max_attempts
           /\ made = IF env.fault = Some("attempt") THEN n - 1 ELSE n
           /\ Len(tries) = made
           /\ \A k \in 1..(Len(tries) - 1) : tries[k].result = <<>>
           /\ Yielding(env) # {} => tries[Len(tries)].result # <<>>

\* C12 witness: the page loaded at the fourth navigation attempt, the first pass found
\* nothing, the second found the markers
C12_Witness ==
    /\ lastVisit.called
    /\ NumGotos(lastVisit.calls) = 4
    /\ lastVisit.env[1].fault = Null
    /\ lastVisit.env[1].delay = 1
    /\ Len(lastVisit.tries) = 2
    /\ lastVisit.tries[1].result = <<>>
    /\ lastVisit.product[1].biomarkers # <<>>
    /\ lastVisit.product[1].extraction_attempts = Some(2)

\* no strategy finds anything in the document, or its query fails
NothingFound(d) ==
    /\ "ol" \in d.fails \/ \A k \in 1..Len(d.ol) : \A i \in 1..Len(d.ol[k]) :
                                ~IsBiomarkerItem(d.ol[k][i])
    /\ "content" \in d.fails \/ \A k \in 1..Len(d.cat) :
                                     \/ d.cat[k].list = Null
                                     \/ \A i \in 1..Len(d.cat[k].list[1]) : d.cat[k].list[1][i] = ""
    /\ "ul" \in d.fails \/ d.ul = Null
          \/ \A i \in 1..Len(d.ul[1]) : d.ul[1][i].instrUl

\* the pass of the biomarker loop (zero-based) that made the k-th call
PassOf(v, k) == IF v.env[1].fault = Some("attempt") THEN k ELSE k - 1

\* C21: a get_product_biomarkers call on a document in which no strategy finds
\* anything, or whose queries fail, returns the empty list and raises nothing; the
\* visit goes on to the next pass unless it was the last, and returns a record
C21_NotFoundIsEmptyAndRetried ==
    lastVisit.called =>
        /\ ~lastVisit.raised
        /\ \A k \in 1..Len(lastVisit.tries) :
              NothingFound(lastVisit.tries[k].doc) =>
                  /\ lastVisit.tries[k].result = <<>>
                  /\ PassOf(lastVisit, k) < max_attempts - 1 => Len(lastVisit.tries) > k
                  /\ lastVisit.product # Null

\* C21 witness: every query failed in three passes on a page that holds biomarkers
C21_Witness ==
    /\ lastVisit.called
    /\ lastVisit.env[1].doc = DocAllFail
    /\ lastVisit.env[1].delay = 0
    /\ lastVisit.env[1].fault = Null
    /\ Len(lastVisit.tries) = max_attempts
    /\ lastVisit.tries[1].result = <<>>
    /\ lastVisit.product[1].biomarkers = <<>>
    /\ lastVisit.product[1].extraction_attempts = Some(max_attempts)

\* the places of the get_product_biomarkers calls of the visit among its calls
ExtractorCalls(calls) ==
    { i \in 1..Len(calls) : calls[i] = Call("get_product_biomarkers", VPP) }

\* the document the call at place i saw
DocAtCall(v, i) ==
    v.tries[Cardinality({ j \in ExtractorCalls(v.calls) : j <= i })].doc

\* the statement of C32 as made: before every get_product_biomarkers call of the
\* visit comes a settle pause and before that pause the expand_read_more call
C32_ExpandSettleExtract ==
    lastVisit.called =>
        \A i \in ExtractorCalls(lastVisit.calls) :
            /\ i > 2
            /\ lastVisit.calls[i - 1] = SleepCall(2)
            /\ lastVisit.calls[i - 2] = Call("expand_read_more", VPP)

\* C32: in every pass of the biomarker loop expand_read_more is called before
\* get_product_biomarkers, and between the two comes the settle pause exactly
\* when expand_read_more returned true
C32_ExpandSettleIfExpandedExtract ==
    lastVisit.called =>
        /\ Cardinality(ExtractorCalls(lastVisit.calls)) = Len(lastVisit.tries)
        /\ \A i \in ExtractorCalls(lastVisit.calls) :
              IF expand_read_more(DomOf(DocAtCall(lastVisit, i)), "ok").ret = Some(TRUE)
              THEN /\ i > 2
                   /\ lastVisit.calls[i - 1] = SleepCall(2)
                   /\ lastVisit.calls[i - 2] = Call("expand_read_more", VPP)
              ELSE /\ i > 1
                   /\ lastVisit.calls[i - 1] = Call("expand_read_more", VPP)

\* C32 witness: on a page without the trigger the extractor was called right after
\* the expander, without a pause, and found the biomarkers
C32_Witness ==
    /\ lastVisit.called
    /\ lastVisit.env[1].doc.showMore = "absent"
    /\ \E i \in ExtractorCalls(lastVisit.calls) :
          lastVisit.calls[i - 1] = Call("expand_read_more", VPP)
    /\ lastVisit.product[1].biomarkers # <<>>

\* C33: handle_cookies raises nothing, also when its query or its click raises,
\* and returns False when there is no consent overlay; after a page load that
\* succeeded, whatever the cookie step and the wait for the price or description
\* region gave, the visit calls get_product_price next (no exception of another
\* kind being raised at these steps)
C33_CookiesAndWaitNonFatal ==
    (/\ lastVisit.called
     /\ lastVisit.page_loaded = Some(TRUE)
     /\ lastVisit.env[1].fault \notin { Some("cookies"), Some("price") }) =>
        /\ ~handle_cookies(lastVisit.env[1].cookie).raised
        /\ lastVisit.env[1].cookie = "absent" =>
              handle_cookies(lastVisit.env[1].cookie).ret = Some(FALSE)
        /\ \E i \in 1..Len(lastVisit.calls) :
              /\ i + 2 <= Len(lastVisit.calls)
              /\ lastVisit.calls[i] =
                    CallRet("handle_cookies", lastVisit.env[1].cookie = "present")
              /\ lastVisit.calls[i + 1] = CallRet("wait_for_selector", lastVisit.env[1].content)
              /\ lastVisit.calls[i + 2].op = "get_product_price"

\* C33 witness: the cookie step failed and neither region appeared, and the visit
\* resolved a price and found biomarkers
C33_Witness ==
    /\ lastVisit.called
    /\ lastVisit.env[1].cookie = "raises"
    /\ ~lastVisit.env[1].content
    /\ lastVisit.env[1].fault = Null
    /\ lastVisit.price = Some(14900)
    /\ lastVisit.product[1].price = Some(14900)
    /\ lastVisit.product[1].biomarkers # <<>>

\* C34: in every record visit_product_page returns, biomarker_count is the count
\* of its biomarkers (the sum of the group sizes of a categorized set, the length
\* of a flat list), and category_count is there exactly when the biomarkers are a
\* non-empty categorized set, and is then the number of groups
C34_CountsMatchBiomarkers ==
    lastVisit.called =>
        LET p == lastVisit.product[1]
            categorized == p.biomarkers # <<>> /\ p.biomarkers[1].t = "dict"
        IN /\ p.biomarker_count =
                Some(IF categorized THEN SumLens(p.biomarkers) ELSE Len(p.biomarkers))
           /\ p.category_count # Null <=> categorized
           /\ categorized => p.category_count = Some(Len(p.biomarkers))

\* C37: in every record visit_product_page returns that is not skipped, the error
\* key is absent exactly when biomarker_count is greater than 0; after a failed
\* load, a caught exception or passes that found nothing, biomarker_count is 0
\* and the error is there
C37_ErrorIffNoBiomarkers ==
    (lastVisit.called /\ lastVisit.product[1].skipped # Some(TRUE)) =>
        LET p == lastVisit.product[1]
        IN /\ p.biomarker_count # Null
           /\ p.error = Null <=> p.biomarker_count[1] > 0
           /\ (\/ lastVisit.page_loaded # Some(TRUE)
               \/ lastVisit.env[1].fault \in { Some("cookies"), Some("price"), Some("log") }
               \/ p.biomarkers = <<>>) =>
                 (p.biomarker_count = Some(0) /\ p.error # Null)

\* C37 witness: the page loaded, no exception was raised and three passes found
\* nothing
C37_Witness ==
    /\ lastVisit.called
    /\ lastVisit.page_loaded = Some(TRUE)
    /\ lastVisit.env[1].fault = Null
    /\ lastVisit.product[1].skipped = Null
    /\ Len(lastVisit.tries) = max_attempts
    /\ lastVisit.product[1].biomarker_count = Some(0)
    /\ lastVisit.product[1].error = Some("No biomarkers found after multiple attempts")

\* C27: when get_product_price returns None and no exception reaches the handler,
\* the biomarker passes are made and the record returned is not skipped, has price
\* None, the biomarkers of the last pass, and an error only when these are empty
C27_NullPriceIsNotFatal ==
    (/\ lastVisit.called
     /\ Invoked(lastVisit.calls, "get_product_price")
     /\ lastVisit.price = Null
     /\ lastVisit.env[1].fault # Some("log")) =>
        /\ Invoked(lastVisit.calls, "get_product_biomarkers")
        /\ lastVisit.tries # <<>>
        /\ lastVisit.product[1].skipped = Null
        /\ lastVisit.product[1].reason = Null
        /\ lastVisit.product[1].price = Null
        /\ lastVisit.product[1].extraction_attempts # Null
        /\ lastVisit.product[1].biomarkers = lastVisit.tries[Len(lastVisit.tries)].result
        /\ lastVisit.product[1].error = Null <=> lastVisit.product[1].biomarkers # <<>>

\* C27 witness: a price text without an amount on a page whose biomarkers are found
C27_Witness ==
    /\ lastVisit.called
    /\ lastVisit.env[1].price = Some(PriceText("Gratis", Null))
    /\ lastVisit.env[1].fault = Null
    /\ lastVisit.product[1].price = Null
    /\ lastVisit.product[1].biomarkers # <<>>
    /\ lastVisit.product[1].error = Null
    /\ lastVisit.product[1].skipped = Null

(***************************************************************************)
(* Claims about the run, checked under Spec                                *)
(***************************************************************************)
\* C8: a visit whose price resolved to 0 returns a record with skipped = True,
\* biomarkers = [] and biomarker_count = 0; save_product_realtime is never called
\* with a skipped record and no record of the persisted products is a skipped one
C8_ZeroPriceSkippedNotSaved ==
    /\ (lastVisit.called /\ lastVisit.price = Some(0)) =>
          /\ lastVisit.product[1].skipped = Some(TRUE)
          /\ lastVisit.product[1].biomarkers = <<>>
          /\ lastVisit.product[1].biomarker_count = Some(0)
    /\ lastSave.p # Null =>
          (lastSave.p[1].skipped # Some(TRUE) /\ lastSave.p[1].price # Some(0))
    /\ \A i \in 1..Len(Catalog.products) :
          (Catalog.products[i].skipped # Some(TRUE) /\ Catalog.products[i].price # Some(0))

\* C8 witness: the save step has passed over a zero-price product whose link the
\* catalog holds from the other listing
C8_Witness ==
    /\ pc = "loop"
    /\ prodIdx > 0
    /\ lastVisit.price = Some(0)
    /\ lastVisit.product[1].skipped = Some(TRUE)
    /\ file.state = "ok"
    /\ LinkCount(Catalog, lastVisit.product[1].link) = 1
    /\ Len(Catalog.products) = 2
    /\ lastSave = NoSave

\* the visit made max_attempts passes and every one returned an empty list
Miss(v) ==
    /\ v.called
    /\ Len(v.tries) = max_attempts
    /\ \A k \in 1..Len(v.tries) : v.tries[k].result = <<>>

\* C13: when all max_attempts passes return an empty list the record returned is not
\* skipped, has biomarker_count 0 and the error "No biomarkers found after multiple
\* attempts"; once the iteration is over save_product_realtime has been called with
\* it, as with every other record that is not skipped
C13_MissIsSaved ==
    /\ Miss(lastVisit) =>
          /\ lastVisit.product[1].skipped # Some(TRUE)
          /\ lastVisit.product[1].biomarkers = <<>>
          /\ lastVisit.product[1].biomarker_count = Some(0)
          /\ lastVisit.product[1].extraction_attempts = Some(max_attempts)
          /\ lastVisit.product[1].error = Some("No biomarkers found after multiple attempts")
    /\ (pc = "loop" /\ lastVisit.called /\ lastVisit.product[1].skipped # Some(TRUE)) =>
          /\ lastSave.p = lastVisit.product
          /\ lastSave.base_url = Some(urls[urlIdx])

\* C13 witness: the record of an extraction miss is in the catalog
C13_Witness ==
    /\ pc = "loop"
    /\ Miss(lastVisit)
    /\ lastSave.ret = Some(Filename)
    /\ file.state = "ok"
    /\ \E i \in 1..Len(Catalog.products) : Catalog.products[i] = lastVisit.product[1]

LinksOf(stubs) == [ i \in 1..Len(stubs) |-> stubs[i].link ]

\* C14: the visits of a listing are the visits of its stubs, one each, in listing
\* order: between two iterations the stubs visited are the first prodIdx ones, and
\* when the run leaves a listing (for the next url or for good) every stub of it
\* has been visited, whatever the earlier visits and saves gave
C14_EveryStubVisitedInOrder ==
    /\ pc = "loop" => visited = LinksOf(SubSeq(products, 1, prodIdx))
    /\ pc \in { "save", "except" } => visited = LinksOf(SubSeq(products, 1, prodIdx + 1))
    /\ pc \in { "url", "done" } => visited = LinksOf(products)

\* C14 witness: the second stub was visited after the first one failed to load and
\* after an exception in the iteration of the second
C14_Witness ==
    /\ pc = "loop"
    /\ urlIdx = 1
    /\ prodIdx = 2
    /\ Len(products) = 2
    /\ visited = << "l2", "l1" >>
    /\ lastVisit = NoVisit
    /\ file.state = "ok"
    /\ \E i \in 1..Len(Catalog.products) :
          /\ Catalog.products[i].link = "l2"
          /\ Catalog.products[i].error = Some("Failed to load page after multiple attempts")

\* C15: between two iterations the catalog file holds a record of the product just
\* visited unless it was skipped, the last of the non-skipped products visited so far
C15_PersistedBeforeNextVisit ==
    (pc = "loop" /\ lastVisit.called /\ lastVisit.product[1].skipped # Some(TRUE)) =>
        /\ file.state = "ok"
        /\ LinkCount(Catalog, lastVisit.product[1].link) = 1

\* the result of a record: its link with its price and biomarkers
ResultOf(p) == [ link |-> p.link, price |-> p.price, biomarkers |-> p.biomarkers ]
ResultsIn(f) ==
    IF f.state = "ok" THEN { ResultOf(f.data.products[i]) : i \in 1..Len(f.data.products) }
    ELSE {}

\* C16: the save step of a visit that failed (its record carries an error) loses no
\* result: every link with its price and biomarkers that the catalog file held before
\* is in the file after
C16_PriorResultsSurviveFailedVisit ==
    [][ (pc = "save" /\ lastVisit.called /\ lastVisit.product[1].error # Null) =>
           ResultsIn(file) \subseteq ResultsIn(file') ]_vars

\* C17: a save_product_realtime call that failed (the file does not hold the record
\* it was called with) has returned None and raised nothing, and the iteration has
\* ended normally: the stubs visited are the first prodIdx ones and the loop goes on
\* with the next
C17_SaveFailureIsNotFatal ==
    (lastSave.p # Null /\ lastSave.p[1] \notin
         { file.data.products[i] : i \in 1..Len(file.data.products) }) =>
        /\ lastSave.ret = Null
        /\ ~lastSave.raised
        /\ pc # "except"
        /\ prodIdx = Len(visited)
        /\ pc = "done" => prodIdx = Len(products)

\* C17 witness: the second stub has been visited after the write of the record of
\* the first one failed
C17_Witness ==
    /\ pc = "save"
    /\ urlIdx = 1
    /\ prodIdx = 1
    /\ Len(visited) = 2
    /\ file.state = "corrupt"

AllStrings(bs) == \A i \in 1..Len(bs) : bs[i].t = "str" /\ DOMAIN bs[i] = { "t", "v" }
AllGroups(bs) ==
    \A i \in 1..Len(bs) :
        /\ bs[i].t = "dict"
        /\ DOMAIN bs[i] = { "t", "category", "markers" }
        /\ \A j \in 1..Len(bs[i].markers) : bs[i].markers[j] \in STRING

\* C23: in every record of the persisted products, price is None or a number, and
\* biomarkers is a list of strings or a list of {category, markers} dicts
C23_PersistedShapes ==
    \A i \in 1..Len(Catalog.products) :
        LET rec == Catalog.products[i]
        IN /\ rec.price = Null \/ (Len(rec.price) = 1 /\ rec.price[1] \in Nat)
           /\ AllStrings(rec.biomarkers) \/ AllGroups(rec.biomarkers)

\* C23 witness: the catalog holds a flat list with a price and a categorized list
\* without one
C23_Witness ==
    /\ file.state = "ok"
    /\ \E i, j \in 1..Len(Catalog.products) :
          /\ Catalog.products[i].biomarkers # <<>>
          /\ AllStrings(Catalog.products[i].biomarkers)
          /\ Catalog.products[i].price = Some(14900)
          /\ Catalog.products[j].biomarkers # <<>>
          /\ AllGroups(Catalog.products[j].biomarkers)
          /\ Catalog.products[j].price = Null

(***************************************************************************)
(* Claims about the pure functions, checked under SpecPure                 *)
(***************************************************************************)
IsFlat(bs) == \A i \in 1..Len(bs) : bs[i].t = "str"
IsCategorized(bs) == bs # <<>> /\ bs[1].t = "dict"
MarkersOf(bs) == Concat([ k \in 1..Len(bs) |-> bs[k].markers ])

\* C28: the ordered-list strategy rejects an item that is empty or contains an
\* instruction phrase, also when an acceptance rule matches it; any other item it
\* accepts exactly when the item matches the vocabulary, or holds a parenthesized
\* uppercase abbreviation, or is title-case, or does not begin with a lowercase
\* letter; an accepted item is returned by its text
C28_RejectionThenAcceptance ==
    lastItem.called =>
        LET it == lastItem.item[1]
            accepted == lastItem.result # <<>>
            rejectable == it.text = "" \/ it.instrOl
        IN /\ rejectable => ~accepted
           /\ ~rejectable =>
                (accepted <=> (it.vocab \/ it.abbr \/ it.title \/ it.first # "lower"))
           /\ accepted => lastItem.result = << Str(it.text) >>

\* an instruction item that matches the vocabulary has been rejected
C28_Witness ==
    /\ lastItem.called
    /\ lastItem.item[1].instrOl /\ lastItem.item[1].vocab
    /\ lastItem.result = <<>>

\* C29: expand_read_more never raises; without a trigger it returns false and leaves
\* the document as it was; with a trigger but without the container, or when the
\* document API raises, it returns false and leaves the document as it was; the
\* visitor then goes on to the extraction, without the settle pause
C29_ExpandNeverRaises ==
    lastExpand.called =>
        LET dom == lastExpand.dom[1]
        IN /\ ~lastExpand.raised
           /\ lastExpand.ret \in { Some(TRUE), Some(FALSE) }
           /\ ~dom.button =>
                (lastExpand.ret = Some(FALSE) /\ lastExpand.after = Some(dom))
           /\ (dom.button /\ (~dom.container \/ lastExpand.api # "ok")) =>
                (lastExpand.ret = Some(FALSE) /\ lastExpand.after = Some(dom))
           /\ lastExpand.ret = Some(FALSE) =>
                lastExpand.calls = << Call("expand_read_more", VPP),
                                      Call("get_product_biomarkers", VPP),
                                      Call("expand_read_more", GPB) >>

\* the trigger is there and page.evaluate has raised: false, and the extraction follows
C29_Witness ==
    /\ lastExpand.called
    /\ lastExpand.dom[1].button /\ lastExpand.api = "evaluate_raises"
    /\ lastExpand.ret = Some(FALSE)
    /\ \E i \in 1..Len(lastExpand.calls) :
          lastExpand.calls[i] = Call("get_product_biomarkers", VPP)

\* C30: the expansion applied twice, by the visitor and then by the extractor,
\* leaves the document as the expansion applied once, for expand_read_more and
\* for expand_content_via_dom, and neither raises when the container, the content
\* region or the trigger is absent
C30_ExpansionIdempotent ==
    lastExpand.called =>
        LET dom == lastExpand.dom[1]
            once == expand_content_via_dom(dom, lastExpand.api)
        IN /\ ~lastExpand.raised /\ ~once.raised
           /\ lastExpand.twice = lastExpand.after
           /\ expand_content_via_dom(once.dom, lastExpand.api).dom = once.dom

\* a paginated listing: each page but the last leads to the page after it
Paginated(pages) ==
    \A i \in 1..Len(pages) : pages[i].next = (IF i < Len(pages) THEN i + 1 ELSE 0)

RECURSIVE SumCounts(_)
SumCounts(pages) ==
    IF pages = <<>> THEN 0 ELSE Len(Head(pages).products) + SumCounts(Tail(pages))

\* C22: what scrape_page returns for a paginated listing is the concatenation of
\* the product lists of its pages in page order, as long as the sum of their
\* lengths, and no link is in it twice
C22_ConcatenationWithoutDuplicates ==
    (scrape.pc = "done" /\ Paginated(scrape.pages)) =>
        /\ scrape.all_products =
             Concat([ i \in 1..Len(scrape.pages) |-> scrape.pages[i].products ])
        /\ Len(scrape.all_products) = SumCounts(scrape.pages)
        /\ \A i, j \in 1..Len(scrape.all_products) :
             scrape.all_products[i].link = scrape.all_products[j].link => i = j

\* C31: when expand_read_more returns true, the content region of the container
\* is there and is in the expanded, visible state
C31_TrueOnlyIfContentVisible ==
    (lastExpand.called /\ lastExpand.ret = Some(TRUE)) =>
        /\ lastExpand.after[1].content
        /\ lastExpand.after[1].expanded
        /\ lastExpand.after[1].display = "block"

\* C40: with a Redis client, cached_or_compute returns the value the store holds
\* for the key without calling compute_func when the key is in the store, and
\* otherwise calls compute_func once, stores its result under the key and returns
\* it; without a client it calls compute_func once, returns its result and leaves
\* the store as it was
C40_CachedOrCompute ==
    cache.last # Null =>
        LET l == cache.last[1]
        IN IF ~cache.client
           THEN l.computes = 1 /\ l.ret = l.result /\ l.after = l.before
           ELSE IF l.key \in DOMAIN l.before
           THEN l.computes = 0 /\ l.ret = l.before[l.key] /\ l.after = l.before
           ELSE /\ l.computes = 1 /\ l.ret = l.result
                /\ l.key \in DOMAIN l.after /\ l.after[l.key] = l.result

\* C39: scrape_page on a paginated listing ends: it returns, having collected the
\* products of every page once, in page order, and having stopped at the page
\* without a next link, or it is left by the exception of a navigation or of the
\* wait for the products
C39_TraversalTerminates ==
    (scrape.pc = "start" /\ Paginated(scrape.pages)) ~>
        \/ scrape.pc = "raised"
        \/ /\ scrape.pc = "done"
           /\ scrape.seen = [ i \in 1..Len(scrape.pages) |-> i ]
           /\ scrape.pages[scrape.current].next = 0
           /\ scrape.all_products =
                Concat([ i \in 1..Len(scrape.pages) |-> scrape.pages[i].products ])

\* C39 witness: scrape_page has returned from the last page of a listing of
\* MaxPages pages
C39_Witness ==
    /\ scrape.pc = "done"
    /\ Paginated(scrape.pages)
    /\ Len(scrape.pages) = MaxPages
    /\ scrape.current = MaxPages
    /\ scrape.seen = [ i \in 1..MaxPages |-> i ]

\* C35: at most one product is being processed at any time, so at most one visit is
\* in progress; between the read and the write of a save_product_realtime call the
\* file is the one that was read; and every link whose save has completed is in
\* the file
C35_SequentialAndAtomicSave ==
    /\ Cardinality({ i \in DOMAIN sched.pc : sched.pc[i] \notin { "todo", "done" } }) <= 1
    /\ \A i \in DOMAIN sched.pc :
          sched.pc[i] = "write" =>
              sched.held[i] = Some(sched.file \cup { sched.items[i] })
    /\ sched.saved \subseteq sched.file

\* C35 witness: the second product is between the read and the write of its save,
\* after the first product was saved
C35_Witness ==
    /\ Len(sched.items) >= 2
    /\ sched.pc[1] = "done"
    /\ sched.pc[2] = "write"
    /\ sched.items[1] \in sched.file
    /\ sched.items[2] # sched.items[1]

\* C18: count_biomarkers gives, for a flat list, its length and no category count;
\* for a list whose first element is a group, the sum of the lengths of the groups'
\* marker lists and the number of groups; for the empty list, 0 and no category count
C18_DualCountingRule ==
    lastCount.counted =>
        LET bs == lastCount.biomarkers
        IN /\ bs = <<>> => (lastCount.total = Some(0) /\ lastCount.categories = Null)
           /\ IsFlat(bs) => (lastCount.total = Some(Len(bs)) /\ lastCount.categories = Null)
           /\ IsCategorized(bs) =>
                 /\ lastCount.total = Some(Len(MarkersOf(bs)))
                 /\ lastCount.categories = Some(Len(bs))

\* C18 witness: two groups of two markers and one marker
C18_Witness ==
    /\ lastCount.counted
    /\ Len(lastCount.biomarkers) = 2
    /\ IsCategorized(lastCount.biomarkers)
    /\ Len(lastCount.biomarkers[1].markers) = 2
    /\ Len(lastCount.biomarkers[2].markers) = 1
    /\ lastCount.total = Some(3)
    /\ lastCount.categories = Some(2)

\* C19: the count of the flattened set is the total count of the set, the flattened
\* set is a flat list that flattening leaves as it is, and flattening a flat set
\* returns that set
C19_FlattenKeepsCount ==
    (lastCount.counted /\ lastCount.flattened) =>
        /\ lastCount.recount = lastCount.total
        /\ Some(Len(lastCount.flat)) = lastCount.total
        /\ IsFlat(lastCount.flat)
        /\ lastCount.again = lastCount.flat
        /\ IsFlat(lastCount.biomarkers) => lastCount.flat = lastCount.biomarkers

\* C19 witness: a categorized set of two non-empty groups, flattened to three markers
C19_Witness ==
    /\ lastCount.counted
    /\ lastCount.flattened
    /\ IsCategorized(lastCount.biomarkers)
    /\ Len(lastCount.biomarkers) = 2
    /\ lastCount.flat = << Str("ALAT"), Str("Glucose"), Str("ALAT") >>
    /\ lastCount.total = Some(3)

\* C20: get_product_price returns a value for every price element, also when the
\* query for the element or the parser raises: 0 when the amount parsed is 0 or the
\* text is "0", "0,-", "€0" or "€0,-"; otherwise the amount parsed when there is one,
\* and None when there is none (no element, no amount, or the parser raised); None
\* is not 0
C20_PriceResolution ==
    lastPrice.called =>
        IF lastPrice.element = Null THEN lastPrice.ret = Null
        ELSE LET pt == lastPrice.element[1]
                 parsed == IF pt.raises THEN Null ELSE pt.amount
             IN IF parsed = Some(0) \/ pt.text \in { "0", "0,-", "€0", "€0,-" }
                THEN lastPrice.ret = Some(0) /\ lastPrice.ret # Null
                ELSE /\ lastPrice.ret = parsed
                     /\ lastPrice.ret # Some(0)

\* C20 witness: the text "0,-" in which the parser finds no amount resolves to 0
C20_Witness ==
    /\ lastPrice.called
    /\ lastPrice.element = Some(PriceText("0,-", Null))
    /\ lastPrice.ret = Some(0)

====
